---------------------------- MODULE Spec2Model ----------------------------
(***************************************************************************)
(* A model of the SOC 2 parsing workers of dora-comply:                    *)
(*   - the job run parse_soc2_document (app.py) with the parser            *)
(*     OptimizedSOC2Parser.parse (soc2_parser_optimized.py) running inside *)
(*     it and the job / parsed_soc2 rows it writes (supabase_client.py);   *)
(*   - the strategy selection from the estimated page count;               *)
(*   - the DORA coverage scorer map_controls_to_dora (dora_mapping.py) and *)
(*     the effectiveness-weighted rule the scorer's test file states.      *)
(* Confidences are kept as exact integers: 1.0 is ConfUnit units.          *)
(***************************************************************************)
EXTENDS Integers, Sequences, FiniteSets, TLC

VARIABLES
    \* ---- job runs of parse_soc2_document, all for the same document ----
    frame,         \* frame[r]: where run r stands and its live locals
    job,           \* job[r]: the extraction_jobs row of run r's job_id
    parsed,        \* ids of the parsed_soc2 rows stored for the document
    result,        \* result[r]: the dict parse_soc2_document returned
    modelCalls,    \* modelCalls[r]: adapter operations run r has invoked
    downloads,     \* downloads[r]: download_document calls of run r
    existedAtStart,\* existedAtStart[r]: a parsed row existed when r started
    overlap,       \* some run passed its check while another was extracting
    document,      \* the documents row: "missing", "no_vendor" or "vendor"
    pdfLen,        \* len(pdf_bytes) of the stored document
    \* ---- strategy selection on its own ----
    sel_len, sel_pages, sel_strategy, sel_pc,
    \* ---- the coverage scorer on its own ----
    sc_controls, sc_mappings, sc_coverage, sc_pc,
    \* ---- one operation of the model adapter (GeminiClient) on its own ----
    ad_op,         \* the operation running
    ad_pc,         \* the statement the operation is at
    ad_attempt,    \* the attempt of the retry wrapper that is running
    ad_files,      \* ad_files[k]: the file uploaded by attempt k
    ad_cache,      \* the context cache of the operation
    ad_calls,      \* ad_calls[i]: the generate_content call for prompt i
    ad_order,      \* the prompts in the order their calls completed
    ad_results,    \* the results the operation holds
    ad_returned,   \* what the operation returned to its caller
    ad_outcome,    \* "running", "returned", "raised", "cancelling", "cancelled"
    ad_exc,        \* an exception is propagating through the finally clauses
    ad_callFailures,   \* generate_content calls that have failed so far
    ad_otherFaults,    \* other calls (upload, cache, delete, merge) that failed
    ad_modelCalls,     \* generate_content calls issued so far
    ad_malformedAt,    \* ad_modelCalls when a response first was malformed JSON
    ad_releasedInFlight, \* a delete was issued while a call was running
    ad_parse,      \* the ParseResult the parser builds from the operation
    ad_record,     \* a parsed_soc2 row was inserted from it
    \* ---- the merge of the PARALLEL results on its own ----
    mg_cc1_cc5, mg_cc6_plus, mg_merged, mg_pc,
    \* ---- the progress notifications of one call of parse ----
    pg_pages,      \* estimated_pages of the document
    pg_callback,   \* an on_progress callback was given
    pg_pc,         \* the statement parse is at
    pg_notes,      \* the calls of on_progress made so far, in order
    pg_finished,   \* the stages that have finished
    pg_outcome,    \* "running", "returned", "returned_failed" or "raised"
    \* ---- fail_job on its own ----
    fj_error_len,  \* len(error_message) of the call
    fj_row,        \* the lengths of the texts stored on the job row
    fj_pc,
    \* ---- upsert_questionnaire_answer and a concurrent writer ----
    uq_row,        \* the answers row of (questionnaire_id, question_id)
    uq_answer,     \* answer_text of the call
    uq_pc,         \* the statement the call is at
    uq_existing,   \* existing.data of the call's select
    uq_result,     \* what the call returned
    uq_lost,       \* a manual or confirmed answer was replaced by the call
    \* ---- the merge of the TWO_PASS results on its own ----
    tp_metadata_result, tp_controls_result, tp_merged, tp_pc,
    \* ---- the token usage of one batch of model calls ----
    us_op,         \* the operation that runs the batch
    us_usages,     \* usage_metadata of the calls that returned, in order
    us_total,      \* total_usage
    us_pc,
    \* ---- QuestionnaireParser.parse and its retried model call ----
    qp_attempts,   \* the exception of each failed attempt of _call_gemini
    qp_address,    \* the address repr() prints for the last attempt's Future
    qp_error,      \* error of the returned ExtractionResult
    qp_pc,
    \* ---- an extraction record, its database record and its re-parse ----
    rt_data,       \* ParseResult.data
    rt_record,     \* to_database_record()
    rt_reparsed,   \* _parse_full_extraction(record)
    rt_pc

jobVars == <<frame, job, parsed, result, modelCalls, downloads, existedAtStart,
             overlap, document, pdfLen>>
selVars == <<sel_len, sel_pages, sel_strategy, sel_pc>>
scVars  == <<sc_controls, sc_mappings, sc_coverage, sc_pc>>
adVars  == <<ad_op, ad_pc, ad_attempt, ad_files, ad_cache, ad_calls, ad_order,
             ad_results, ad_returned, ad_outcome, ad_exc, ad_callFailures,
             ad_otherFaults, ad_modelCalls, ad_malformedAt, ad_releasedInFlight,
             ad_parse, ad_record>>
mgVars  == <<mg_cc1_cc5, mg_cc6_plus, mg_merged, mg_pc>>
pgVars  == <<pg_pages, pg_callback, pg_pc, pg_notes, pg_finished, pg_outcome>>
\* The units that are modelled on their own further below.
fjVars  == <<fj_error_len, fj_row, fj_pc>>
uqVars  == <<uq_row, uq_answer, uq_pc, uq_existing, uq_result, uq_lost>>
tpVars  == <<tp_metadata_result, tp_controls_result, tp_merged, tp_pc>>
coreVars == <<jobVars, selVars, scVars, adVars, mgVars>>
usVars  == <<us_op, us_usages, us_total, us_pc>>
qpVars  == <<qp_attempts, qp_address, qp_error, qp_pc>>
rtVars  == <<rt_data, rt_record, rt_reparsed, rt_pc>>
moreVars == <<usVars, qpVars, rtVars>>
unitVars == <<pgVars, fjVars, uqVars, tpVars, moreVars>>
vars    == <<jobVars, selVars, scVars, adVars, mgVars, unitVars>>

None == "None"

-----------------------------------------------------------------------------
(* Bounds of the model *)

\* The largest document, in units of SizeUnit bytes.
MaxSizeUnits == 800
\* The longest control list given to the scorer.
MaxControls == 4
\* The number of job runs started for the document.
NumRuns == 2
\* The longest control list one model call of the PARALLEL strategy returns.
MaxPartLen == 2

-----------------------------------------------------------------------------
(* Size estimate and strategy selection *)

BytesPerPage == 50000
SINGLE_PASS_MAX_PAGES == 80
TWO_PASS_MAX_PAGES == 150

\* Document sizes are modelled in fifths of an estimated page.
SizeUnit == BytesPerPage \div 5

Max(a, b) == IF a >= b THEN a ELSE b

\* GeminiClient.estimate_pages: max(1, len(pdf_bytes) // 50000)
estimate_pages(len) == Max(1, len \div BytesPerPage)

\* A selection with the boundary page counts on the wrong side.
SelectStrategyStrict(pages) ==
    IF pages < SINGLE_PASS_MAX_PAGES THEN "SINGLE_PASS"
    ELSE IF pages < TWO_PASS_MAX_PAGES THEN "TWO_PASS"
    ELSE "PARALLEL"

\* OptimizedSOC2Parser.parse, the if / elif / else over estimated_pages
SelectStrategy(pages) ==
    IF pages <= SINGLE_PASS_MAX_PAGES THEN "SINGLE_PASS"
    ELSE IF pages <= TWO_PASS_MAX_PAGES THEN "TWO_PASS"
    ELSE "PARALLEL"

-----------------------------------------------------------------------------
(* The DORA article table and the coverage scorer *)

\* The unit of confidence: hundredths, as the scorer's constants are, divided
\* further by 12 so that the quotients by 1 to 4 required categories are exact.
ConfUnit == 100 * 12

\* DORA_TO_TSC_MAPPING: tsc_categories in list order, weight in tenths.
DORA_TO_TSC_MAPPING ==
    [a \in {"Article 5", "Article 6", "Article 7", "Article 8", "Article 9",
            "Article 10", "Article 11", "Article 12", "Article 13",
            "Article 17", "Article 18", "Article 19", "Article 24",
            "Article 25", "Article 28", "Article 29", "Article 30",
            "Article 45"} |->
       CASE a = "Article 5"  -> [tsc_categories |-> <<"CC1", "CC3", "CC4", "CC9">>, weight |-> 10]
         [] a = "Article 6"  -> [tsc_categories |-> <<"CC6", "CC7", "CC8", "A">>, weight |-> 10]
         [] a = "Article 7"  -> [tsc_categories |-> <<"CC3", "CC6">>, weight |-> 8]
         [] a = "Article 8"  -> [tsc_categories |-> <<"CC5", "CC6", "CC7", "C">>, weight |-> 10]
         [] a = "Article 9"  -> [tsc_categories |-> <<"CC7", "CC4">>, weight |-> 8]
         [] a = "Article 10" -> [tsc_categories |-> <<"CC7", "CC9", "A">>, weight |-> 10]
         [] a = "Article 11" -> [tsc_categories |-> <<"A", "CC7", "CC9">>, weight |-> 9]
         [] a = "Article 12" -> [tsc_categories |-> <<"CC4", "CC3">>, weight |-> 6]
         [] a = "Article 13" -> [tsc_categories |-> <<"CC2", "CC7">>, weight |-> 7]
         [] a = "Article 17" -> [tsc_categories |-> <<"CC7", "CC2">>, weight |-> 10]
         [] a = "Article 18" -> [tsc_categories |-> <<"CC7">>, weight |-> 8]
         [] a = "Article 19" -> [tsc_categories |-> <<"CC7", "CC2">>, weight |-> 10]
         [] a = "Article 24" -> [tsc_categories |-> <<"CC4", "CC7", "A">>, weight |-> 9]
         [] a = "Article 25" -> [tsc_categories |-> <<"CC7", "CC8", "A">>, weight |-> 8]
         [] a = "Article 28" -> [tsc_categories |-> <<"CC9">>, weight |-> 10]
         [] a = "Article 29" -> [tsc_categories |-> <<"CC3", "CC9">>, weight |-> 8]
         [] a = "Article 30" -> [tsc_categories |-> <<"CC9">>, weight |-> 9]
         [] a = "Article 45" -> [tsc_categories |-> <<"CC2", "CC7">>, weight |-> 5]]

\* The articles in the order the dict lists (and iterates) them.
ArticleOrder ==
    <<"Article 5", "Article 6", "Article 7", "Article 8", "Article 9",
      "Article 10", "Article 11", "Article 12", "Article 13", "Article 17",
      "Article 18", "Article 19", "Article 24", "Article 25", "Article 28",
      "Article 29", "Article 30", "Article 45">>

Articles == DOMAIN DORA_TO_TSC_MAPPING

Range(s) == {s[i] : i \in DOMAIN s}

\* The set R of an article's required categories.
RequiredCategories(article) == Range(DORA_TO_TSC_MAPPING[article].tsc_categories)

\* The values of TestResult.
TestResults == {"operating_effectively", "exception", "not_tested"}

\* The tsc_category strings the extracted controls carry: a category as the
\* table spells it, one in lower case, and one no article requires.
InputCategories == {"CC9", "cc3", "PI"}

\* str.upper() on the category strings.
upper(s) == CASE s = "cc3" -> "CC3"
              [] s = "cc9" -> "CC9"
              [] OTHER -> s

\* controls_by_category[tsc_cat]: the controls of a category, in input order
\* (the empty list stands for a missing key).
controls_by_category(controls, tsc_cat) ==
    SelectSeq(controls, LAMBDA c : upper(c.tsc_category) = tsc_cat)

RECURSIVE ExtendAll(_, _, _)
\* The loop extending article_controls over info["tsc_categories"][i..]
ExtendAll(controls, cats, i) ==
    IF i > Len(cats) THEN <<>>
    ELSE controls_by_category(controls, cats[i]) \o ExtendAll(controls, cats, i + 1)

\* article_controls of one article: C_A, the controls matched to it
article_controls(controls, article) ==
    ExtendAll(controls, DORA_TO_TSC_MAPPING[article].tsc_categories, 1)

\* A level decision that reports an article without controls as partial.
CoverageOfLoose(n, required) ==
    IF n >= required * 2
      THEN [coverage_level |-> "full", confidence |-> (95 * ConfUnit) \div 100]
    ELSE IF n >= required
      THEN [coverage_level |-> "full", confidence |-> (85 * ConfUnit) \div 100]
    ELSE [coverage_level |-> "partial",
          confidence |-> (60 * ConfUnit) \div 100
                          + (n * ((25 * ConfUnit) \div 100)) \div required]

\* A level decision whose high-confidence branch is never taken.
CoverageOfFlat(n, required) ==
    IF n = 0
      THEN [coverage_level |-> "none", confidence |-> 0]
    ELSE IF n >= required
      THEN [coverage_level |-> "full", confidence |-> (85 * ConfUnit) \div 100]
    ELSE [coverage_level |-> "partial",
          confidence |-> (60 * ConfUnit) \div 100
                          + (n * ((25 * ConfUnit) \div 100)) \div required]

\* map_controls_to_dora, the if / elif chain over len(article_controls) = n
\* and len(info["tsc_categories"]) = required
CoverageOf(n, required) ==
    IF n = 0
      THEN [coverage_level |-> "none", confidence |-> 0]
    ELSE IF n >= required * 2
      THEN [coverage_level |-> "full", confidence |-> (95 * ConfUnit) \div 100]
    ELSE IF n >= required
      THEN [coverage_level |-> "full", confidence |-> (85 * ConfUnit) \div 100]
    ELSE [coverage_level |-> "partial",
          confidence |-> (60 * ConfUnit) \div 100
                          + (n * ((25 * ConfUnit) \div 100)) \div required]

\* A mapping whose confidence is halved when the first matched control of the
\* input is not operating effectively.
MappingOfFirst(controls, article) ==
    LET ac  == article_controls(controls, article)
        cov == CoverageOf(Len(ac), Len(DORA_TO_TSC_MAPPING[article].tsc_categories))
    IN  [dora_article    |-> article,
         dora_control_id |-> article,
         coverage_level  |-> cov.coverage_level,
         confidence      |-> IF Len(ac) > 0 /\ ac[1].test_result # "operating_effectively"
                               THEN cov.confidence \div 2 ELSE cov.confidence,
         soc2_control_id |-> IF Len(ac) = 0 THEN "" ELSE ac[1].control_id]

\* The DORAMapping appended for one article.
MappingOf(controls, article) ==
    LET ac  == article_controls(controls, article)
        cov == CoverageOf(Len(ac), Len(DORA_TO_TSC_MAPPING[article].tsc_categories))
    IN  [dora_article    |-> article,
         dora_control_id |-> article,
         coverage_level  |-> cov.coverage_level,
         confidence      |-> cov.confidence,
         soc2_control_id |-> IF Len(ac) = 0 THEN "" ELSE ac[1].control_id]

\* A scorer that appends a mapping only for the articles some control matches.
MapOnlyMatched(controls) ==
    SelectSeq([i \in 1..Len(ArticleOrder) |-> MappingOf(controls, ArticleOrder[i])],
              LAMBDA m : m.coverage_level # "none")

\* A scorer that runs the loop over the articles twice, appending two mappings
\* for every article.
MapTwice(controls) ==
    [i \in 1..(2 * Len(ArticleOrder)) |->
       MappingOf(controls, ArticleOrder[((i - 1) % Len(ArticleOrder)) + 1])]

\* map_controls_to_dora: one DORAMapping per article, in table order
map_controls_to_dora(controls) ==
    [i \in 1..Len(ArticleOrder) |-> MappingOf(controls, ArticleOrder[i])]

\* A coverage score that counts a partial article as a full one.
CoverageScoreFlat(level) ==
    CASE level = "full" -> 2
      [] level = "partial" -> 2
      [] OTHER -> 0

\* coverage_score of a level, in halves: full 1.0, partial 0.5, none 0.0
coverage_score2(level) ==
    CASE level = "full" -> 2
      [] level = "partial" -> 1
      [] OTHER -> 0

RECURSIVE weighted_score(_, _)
\* weighted_score after the first n mappings: the sum of
\* coverage_score * weight * confidence, in units of 1 / (2 * 10 * ConfUnit)
weighted_score(mappings, n) ==
    IF n = 0 THEN 0
    ELSE weighted_score(mappings, n - 1)
         + coverage_score2(mappings[n].coverage_level)
           * DORA_TO_TSC_MAPPING[mappings[n].dora_article].weight
           * mappings[n].confidence

RECURSIVE total_weight(_, _)
\* total_weight after the first n mappings, in tenths
total_weight(mappings, n) ==
    IF n = 0 THEN 0
    ELSE total_weight(mappings, n - 1)
         + DORA_TO_TSC_MAPPING[mappings[n].dora_article].weight

\* round(weighted_score / total_weight, 3), in thousandths: the quotient of
\* the exact sums rounded to the nearest thousandth
overall_score(mappings) ==
    LET w == weighted_score(mappings, Len(mappings))
        d == 2 * ConfUnit * total_weight(mappings, Len(mappings))
    IN  IF d > 0 THEN (2 * 1000 * w + d) \div (2 * d) ELSE 0

\* The index of the last mapping of an article: a later assignment to
\* coverage_by_article[article] replaces an earlier one.
LastOf(mappings, article) ==
    CHOOSE i \in 1..Len(mappings) :
       /\ mappings[i].dora_article = article
       /\ \A j \in (i + 1)..Len(mappings) : mappings[j].dora_article # article

\* calculate_dora_coverage
calculate_dora_coverage(mappings) ==
    IF Len(mappings) = 0
      THEN [overall_score |-> 0, articles_covered |-> 0,
            articles_total |-> Cardinality(DOMAIN DORA_TO_TSC_MAPPING),
            coverage_by_article |-> [a \in {} |-> None]]
      ELSE [overall_score |-> overall_score(mappings),
            articles_covered |->
               Cardinality({i \in 1..Len(mappings) :
                              mappings[i].coverage_level \in {"full", "partial"}}),
            articles_total |-> Cardinality(DOMAIN DORA_TO_TSC_MAPPING),
            coverage_by_article |->
               [a \in {mappings[i].dora_article : i \in 1..Len(mappings)} |->
                  LET m == mappings[LastOf(mappings, a)]
                  IN  [coverage_level |-> m.coverage_level,
                       confidence |-> m.confidence,
                       soc2_control |-> m.soc2_control_id,
                       weight |-> DORA_TO_TSC_MAPPING[a].weight]]]

\* The number of controls of a list with a given test result.
CountResult(cs, tr) == Len(SelectSeq(cs, LAMBDA c : c.test_result = tr))

\* calculate_effective_coverage of the scorer's tests, the coverage level:
\* ratio = (1.0*effective + 0.3*exception + 0.1*not_tested) / max(required, 1),
\* compared in tenths (the float comparisons agree with these for the list
\* lengths modelled wherever the branch taken depends on them).
calculate_effective_coverage(cs, required_categories) ==
    LET effective_count == CountResult(cs, "operating_effectively")
        exception_count == CountResult(cs, "exception")
        not_tested_count == CountResult(cs, "not_tested")
        score10 == 10 * effective_count + 3 * exception_count + not_tested_count
        req == Max(required_categories, 1)
    IN  IF Len(cs) = 0 THEN "none"
        ELSE IF score10 >= 15 * req /\ exception_count = 0 THEN "full"
        ELSE IF score10 >= 10 * req /\ exception_count = 0 THEN "full"
        ELSE IF score10 >= 7 * req THEN "partial"
        ELSE IF score10 >= 3 * req THEN "partial"
        ELSE "none"


-----------------------------------------------------------------------------
(* The job runs: parse_soc2_document, with parser.parse running inside it.  *)
(* Every storage call and the adapter call is one step, which returns or    *)
(* raises; the local code that follows a call belongs to the call's step.   *)
(* frame[r] holds the position of run r and the locals still read later: a  *)
(* local is set back to None once no code reads it any more.                *)

Runs == 1..NumRuns

\* The documents row and the stored file a job is started for: no row, or a
\* row with or without vendor_id and a file of 80, 81 or 151 pages.
StoredDocuments ==
    {[row |-> "missing", units |-> 0],
     [row |-> "no_vendor", units |-> 400],
     [row |-> "vendor", units |-> 405],
     [row |-> "vendor", units |-> 755]}

\* What the model calls of one parse return: a result a field of which is
\* null (the merge raises on it), one without controls, one with controls.
ModelOutputs == {"malformed", "no_controls", "controls"}

StorageError == "storage call failed"
ModelError == "model call failed"
MergeError == "'NoneType' object has no attribute 'lower'"

\* The job row create_extraction_job inserts.
NoJob == [status |-> "pending", progress_percentage |-> 0,
          current_phase |-> "initializing", parsed_soc2_id |-> None,
          completed_at |-> FALSE]

\* pc: the step the run is at; err: str(e) of the exception being handled;
\* existing: the row check_existing_parse returned; parseOutcome: the call
\* of parser.parse ("not_called", "running", "returned" while its ParseResult
\* is held, "raised", "over" once the result is no longer read);
\* parseResult: the ParseResult it returned; modelOut: the results of the
\* model calls; strategy: the selected strategy.
NoFrame == [pc |-> "start", err |-> "", existing |-> None,
            parseOutcome |-> "not_called", parseResult |-> None,
            modelOut |-> None, strategy |-> None]

JobInitWith(doc, len) ==
    /\ frame = [r \in Runs |-> NoFrame]
    /\ job = [r \in Runs |-> NoJob]
    /\ parsed = {}
    /\ result = [r \in Runs |-> None]
    /\ modelCalls = [r \in Runs |-> 0]
    /\ downloads = [r \in Runs |-> 0]
    /\ existedAtStart = [r \in Runs |-> FALSE]
    /\ overlap = FALSE
    /\ document = doc
    /\ pdfLen = len

SelIdle == sel_len = 0 /\ sel_pages = 0 /\ sel_strategy = None /\ sel_pc = "idle"
\* The DORACoverageResult before any is calculated.
NoCoverage == [overall_score |-> 0, articles_covered |-> 0, articles_total |-> 0,
               coverage_by_article |-> [a \in {} |-> None]]

ScIdle  == sc_controls = <<>> /\ sc_mappings = <<>> /\ sc_coverage = NoCoverage
           /\ sc_pc = "idle"

AdIdle ==
    /\ ad_op = None
    /\ ad_pc = "idle"
    /\ ad_attempt = 0
    /\ ad_files = <<>>
    /\ ad_cache = "none"
    /\ ad_calls = <<>>
    /\ ad_order = <<>>
    /\ ad_results = <<>>
    /\ ad_returned = <<>>
    /\ ad_outcome = "idle"
    /\ ad_exc = FALSE
    /\ ad_callFailures = 0
    /\ ad_otherFaults = 0
    /\ ad_modelCalls = 0
    /\ ad_malformedAt = 0
    /\ ad_releasedInFlight = FALSE
    /\ ad_parse = None
    /\ ad_record = FALSE

MgIdle == mg_cc1_cc5 = <<>> /\ mg_cc6_plus = <<>> /\ mg_merged = <<>> /\ mg_pc = "idle"

PgIdle ==
    /\ pg_pages = 0
    /\ pg_callback = FALSE
    /\ pg_pc = "idle"
    /\ pg_notes = <<>>
    /\ pg_finished = {}
    /\ pg_outcome = "idle"

NoRow == [status |-> "pending", current_message |-> 0, error_message |-> 0]

FjIdle == fj_error_len = 0 /\ fj_row = NoRow /\ fj_pc = "idle"

\* No answers row is stored for the (questionnaire_id, question_id).
NoAnswer == [source |-> "absent", answer_text |-> ""]

UqIdle ==
    /\ uq_row = NoAnswer
    /\ uq_answer = None
    /\ uq_pc = "idle"
    /\ uq_existing = <<>>
    /\ uq_result = None
    /\ uq_lost = FALSE

TpIdle ==
    /\ tp_metadata_result = None
    /\ tp_controls_result = None
    /\ tp_merged = None
    /\ tp_pc = "idle"

\* total_usage = {"input": 0, "output": 0, "cached": 0}
NoUsage == [input |-> 0, output |-> 0, cached |-> 0]

UsIdle ==
    /\ us_op = None
    /\ us_usages = <<>>
    /\ us_total = NoUsage
    /\ us_pc = "idle"

QpIdle ==
    /\ qp_attempts = <<>>
    /\ qp_address = None
    /\ qp_error = <<>>
    /\ qp_pc = "idle"

RtIdle ==
    /\ rt_data = None
    /\ rt_record = None
    /\ rt_reparsed = None
    /\ rt_pc = "idle"

MoreIdle == UsIdle /\ QpIdle /\ RtIdle

UnitIdle == PgIdle /\ FjIdle /\ UqIdle /\ TpIdle /\ MoreIdle

\* The steps from which a run that found no parsed row can still insert one.
Extracting == {"update_downloading", "download", "parse_analyzing",
               "parse_extracting", "parse_model", "parse_processing",
               "parse_complete", "update_storing", "insert_parsed"}

\* The id of the parsed_soc2 row that run r inserts.
RowId(r) == ToString(r)

\* A check that never finds the stored row.
CheckNeverFinds(rows) == {None}

\* SupabaseClient.check_existing_parse: the values it may return, the first
\* row of an unordered select ... limit(1), or None
check_existing_parse(rows) == IF rows = {} THEN {None} ELSE rows

\* SupabaseClient.update_job_progress on a job row
update_job_progress(row, status, progress, phase) ==
    [row EXCEPT !.status = status, !.progress_percentage = progress,
                !.current_phase = phase]

\* SupabaseClient.complete_job on a job row
complete_job(row, parsed_soc2_id) ==
    [row EXCEPT !.status = "complete", !.progress_percentage = 100,
                !.current_phase = "complete",
                !.parsed_soc2_id = parsed_soc2_id, !.completed_at = TRUE]

\* SupabaseClient.fail_job on a job row
fail_job(row) ==
    [row EXCEPT !.status = "failed", !.current_phase = "failed",
                !.completed_at = TRUE]

\* on_progress: the job status written for a parser phase
status_map(phase) ==
    CASE phase = "analyzing" -> "analyzing"
      [] phase = "extracting" -> "extracting"
      [] phase = "processing" -> "verifying"
      [] phase = "complete" -> "mapping"
      [] phase = "failed" -> "failed"
      [] OTHER -> "extracting"

\* The api_calls_count each strategy's extraction reports.
ApiCalls(s) == CASE s = "SINGLE_PASS" -> 1 [] s = "TWO_PASS" -> 2 [] OTHER -> 3

\* ParseResult(success=False, document_id, error, processing_time_ms): the
\* other fields keep the dataclass defaults
FailedParseResult(error) ==
    [success |-> FALSE, error |-> error, extraction_strategy |-> "SINGLE_PASS",
     api_calls_count |-> 1, controls |-> "none"]

\* Run r goes on to step `next`.
Goto(r, next) == frame' = [frame EXCEPT ![r].pc = next]

\* An exception reaches the except clause of parse_soc2_document, which reads
\* nothing but the exception.
Raise(r, msg, outcome) ==
    frame' = [frame EXCEPT ![r] =
                [NoFrame EXCEPT !.pc = "handler", !.err = msg,
                                !.parseOutcome = outcome]]

\* An exception reaches the except clause of parse, which reads nothing but
\* the exception.
ParseRaise(r, msg) ==
    frame' = [frame EXCEPT ![r] =
                [NoFrame EXCEPT !.pc = "parse_failed", !.err = msg,
                                !.parseOutcome = "running"]]

\* parse_soc2_document is left, by return or by an exception.
Leave(r, how) == frame' = [frame EXCEPT ![r] = [NoFrame EXCEPT !.pc = how]]

\* A job-row write of run r that returns (the run goes on to `next`) or
\* raises.
JobWrite(r, row, next) ==
    \/ /\ job' = [job EXCEPT ![r] = row]
       /\ Goto(r, next)
    \/ /\ Raise(r, StorageError,
                IF frame[r].parseOutcome = "returned" THEN "over" ELSE "not_called")
       /\ UNCHANGED job

\* The rest of the state, which a step of one run's own leaves alone.
Shared == <<parsed, result, modelCalls, downloads, existedAtStart, overlap,
            document, pdfLen, selVars, scVars, adVars, mgVars, unitVars>>

\* update_job_progress(status="analyzing", progress=5, phase="starting"), the
\* first call of a run
UpdateStarting(r) ==
    /\ frame[r].pc = "start"
    /\ existedAtStart' = [existedAtStart EXCEPT ![r] = (parsed # {})]
    /\ JobWrite(r, update_job_progress(job[r], "analyzing", 5, "starting"),
                "get_document")
    /\ UNCHANGED <<parsed, result, modelCalls, downloads, overlap, document,
                   pdfLen, selVars, scVars, adVars, mgVars, unitVars>>

\* document = supabase.get_document(document_id); not found raises ValueError
GetDocument(r) ==
    /\ frame[r].pc = "get_document"
    /\ \/ Raise(r, "Failed to get document", "not_called")
       \/ /\ document = "missing"
          /\ Raise(r, "Document not found", "not_called")
       \/ /\ document # "missing"
          /\ Goto(r, "check_existing")
    /\ UNCHANGED <<job, Shared>>

\* existing = supabase.check_existing_parse(document_id); if existing: ...
CheckExisting(r) ==
    /\ frame[r].pc = "check_existing"
    /\ \/ /\ Raise(r, "Failed to check existing parse", "not_called")
          /\ UNCHANGED overlap
       \/ \E e \in check_existing_parse(parsed) :
            /\ frame' = [frame EXCEPT ![r].existing = e,
                                      ![r].pc = IF e # None THEN "complete_existing"
                                                ELSE "update_downloading"]
            /\ overlap' = (overlap \/ (e = None /\ \E o \in Runs \ {r} :
                                                     frame[o].pc \in Extracting))
    /\ UNCHANGED <<job, parsed, result, modelCalls, downloads, existedAtStart,
                   document, pdfLen, selVars, scVars, adVars, mgVars, unitVars>>

\* The short circuit: complete_job with the existing id, return success
CompleteExisting(r) ==
    /\ frame[r].pc = "complete_existing"
    /\ \/ /\ job' = [job EXCEPT ![r] = complete_job(@, frame[r].existing)]
          /\ result' = [result EXCEPT ![r] =
                          [success |-> TRUE, message |-> "Document already parsed",
                           parsed_id |-> frame[r].existing,
                           already_parsed |-> TRUE, error |-> None]]
          /\ Leave(r, "returned")
       \/ /\ Raise(r, StorageError, "not_called")
          /\ UNCHANGED <<job, result>>
    /\ UNCHANGED <<parsed, modelCalls, downloads, existedAtStart, overlap,
                   document, pdfLen, selVars, scVars, adVars, mgVars, unitVars>>

\* update_job_progress(status="analyzing", progress=10, phase="downloading")
UpdateDownloading(r) ==
    /\ frame[r].pc = "update_downloading"
    /\ JobWrite(r, update_job_progress(job[r], "analyzing", 10, "downloading"),
                "download")
    /\ UNCHANGED Shared

\* pdf_bytes = supabase.download_document(document["storage_path"])
Download(r) ==
    /\ frame[r].pc = "download"
    /\ downloads' = [downloads EXCEPT ![r] = @ + 1]
    /\ \/ Goto(r, "parse_analyzing")
       \/ Raise(r, StorageError, "not_called")
    /\ UNCHANGED <<job, parsed, result, modelCalls, existedAtStart, overlap,
                   document, pdfLen, selVars, scVars, adVars, mgVars, unitVars>>

\* parse: the size estimate, update_progress("analyzing", 5, ...) and the
\* strategy selected from estimated_pages
ParseAnalyzing(r) ==
    /\ frame[r].pc = "parse_analyzing"
    /\ \/ /\ job' = [job EXCEPT ![r] =
                       update_job_progress(@, status_map("analyzing"), 5, "analyzing")]
          /\ frame' = [frame EXCEPT
                         ![r].pc = "parse_extracting",
                         ![r].parseOutcome = "running",
                         ![r].strategy = SelectStrategy(estimate_pages(pdfLen))]
       \/ /\ ParseRaise(r, StorageError)
          /\ UNCHANGED job
    /\ UNCHANGED Shared

\* _single_pass / _two_pass / _parallel_extraction: update_progress("extracting")
ParseExtracting(r) ==
    /\ frame[r].pc = "parse_extracting"
    /\ \/ /\ job' = [job EXCEPT ![r] =
                       update_job_progress(@, status_map("extracting"),
                         IF frame[r].strategy = "SINGLE_PASS" THEN 20 ELSE 15,
                         "extracting")]
          /\ Goto(r, "parse_model")
       \/ /\ ParseRaise(r, StorageError)
          /\ UNCHANGED job
    /\ UNCHANGED Shared

\* The adapter operation of the strategy: extract_with_schema,
\* extract_with_caching or run_parallel_extraction returns results or raises
ParseModelCall(r) ==
    /\ frame[r].pc = "parse_model"
    /\ modelCalls' = [modelCalls EXCEPT ![r] = @ + 1]
    /\ \/ \E out \in ModelOutputs :
            frame' = [frame EXCEPT ![r].modelOut = out,
                                   ![r].pc = "parse_processing"]
       \/ ParseRaise(r, ModelError)
    /\ UNCHANGED <<job, parsed, result, downloads, existedAtStart, overlap,
                   document, pdfLen, selVars, scVars, adVars, mgVars, unitVars>>

\* update_progress("processing", 80, ...), then the merge of the results into
\* typed objects, the statistics and the DORA mapping
ParseProcessing(r) ==
    /\ frame[r].pc = "parse_processing"
    /\ \/ /\ ParseRaise(r, StorageError)
          /\ UNCHANGED job
       \/ /\ job' = [job EXCEPT ![r] =
                       update_job_progress(@, status_map("processing"), 80, "processing")]
          /\ IF frame[r].modelOut = "malformed"
               THEN ParseRaise(r, MergeError)
               ELSE Goto(r, "parse_complete")
    /\ UNCHANGED Shared

\* parse: update_progress("complete", 100, ...) and return result; the run
\* goes on to store what was parsed
ParseComplete(r) ==
    /\ frame[r].pc = "parse_complete"
    /\ \/ /\ job' = [job EXCEPT ![r] =
                       update_job_progress(@, status_map("complete"), 100, "complete")]
          /\ frame' = [frame EXCEPT ![r] =
               [NoFrame EXCEPT
                  !.pc = "update_storing",
                  !.parseOutcome = "returned",
                  !.parseResult =
                     [success |-> TRUE, error |-> None,
                      extraction_strategy |-> frame[r].strategy,
                      api_calls_count |-> ApiCalls(frame[r].strategy),
                      controls |-> IF frame[r].modelOut = "controls"
                                     THEN "some" ELSE "none"]]]
       \/ /\ ParseRaise(r, StorageError)
          /\ UNCHANGED job
    /\ UNCHANGED Shared

\* parse, the except clause: update_progress("failed", 0, str(e)), then the
\* failed ParseResult is returned, on which the run raises ValueError; an
\* exception of the callback leaves parse from inside the except clause
ParseFailed(r) ==
    /\ frame[r].pc = "parse_failed"
    /\ \/ /\ job' = [job EXCEPT ![r] =
                       update_job_progress(@, status_map("failed"), 0, "failed")]
          /\ LET res == FailedParseResult(frame[r].err)
             IN  frame' = [frame EXCEPT ![r] =
                   [NoFrame EXCEPT
                      !.pc = "handler",
                      !.err = IF res.error = "" THEN "Parsing failed" ELSE res.error,
                      !.parseOutcome = "returned",
                      !.parseResult = res]]
       \/ /\ Raise(r, StorageError, "raised")
          /\ UNCHANGED job
    /\ UNCHANGED Shared

\* update_job_progress(status="mapping", progress=85, phase="storing", ...)
UpdateStoring(r) ==
    /\ frame[r].pc = "update_storing"
    /\ JobWrite(r, update_job_progress(job[r], "mapping", 85, "storing"),
                "insert_parsed")
    /\ UNCHANGED Shared

\* parsed_id = supabase.insert_parsed_soc2(document_id, db_record): the row
\* inserted by run r has id RowId(r)
InsertParsed(r) ==
    /\ frame[r].pc = "insert_parsed"
    /\ \/ /\ parsed' = parsed \cup {RowId(r)}
          /\ Goto(r, "update_document")
       \/ /\ Raise(r, StorageError, "over")
          /\ UNCHANGED parsed
    /\ UNCHANGED <<job, result, modelCalls, downloads, existedAtStart, overlap,
                   document, pdfLen, selVars, scVars, adVars, mgVars, unitVars>>

\* supabase.update_document_ai_analysis(...); then the evidence locations
\* are built if result.data.controls is not empty
UpdateDocumentAI(r) ==
    /\ frame[r].pc = "update_document"
    /\ \/ Goto(r, IF frame[r].parseResult.controls = "some"
                    THEN "insert_evidence" ELSE "complete_job")
       \/ Raise(r, StorageError, "over")
    /\ UNCHANGED <<job, Shared>>

\* supabase.insert_evidence_locations(...); then the vendor assessments
\* follow if the document has a vendor_id (dora_mappings is not empty here)
InsertEvidence(r) ==
    /\ frame[r].pc = "insert_evidence"
    /\ \/ Goto(r, IF document = "vendor" THEN "vendor_assessments"
                  ELSE "complete_job")
       \/ Raise(r, StorageError, "over")
    /\ UNCHANGED <<job, Shared>>

\* await _create_vendor_assessments(...): returns, or a storage call of it
\* (get_framework_controls, upsert_vendor_assessments) raises
CreateVendorAssessments(r) ==
    /\ frame[r].pc = "vendor_assessments"
    /\ \/ Goto(r, "complete_job")
       \/ Raise(r, StorageError, "over")
    /\ UNCHANGED <<job, Shared>>

\* supabase.complete_job(job_id, parsed_id, ...) and return success
CompleteJob(r) ==
    /\ frame[r].pc = "complete_job"
    /\ \/ /\ job' = [job EXCEPT ![r] = complete_job(@, RowId(r))]
          /\ result' = [result EXCEPT ![r] =
                          [success |-> TRUE, message |-> "Parsing complete",
                           parsed_id |-> RowId(r), already_parsed |-> FALSE,
                           error |-> None]]
          /\ Leave(r, "returned")
       \/ /\ Raise(r, StorageError, "over")
          /\ UNCHANGED <<job, result>>
    /\ UNCHANGED <<parsed, modelCalls, downloads, existedAtStart, overlap,
                   document, pdfLen, selVars, scVars, adVars, mgVars, unitVars>>

\* except Exception as e: supabase.fail_job(job_id, str(e)) and return the
\* failure; an exception of fail_job leaves parse_soc2_document
FailJob(r) ==
    /\ frame[r].pc = "handler"
    /\ \/ /\ job' = [job EXCEPT ![r] = fail_job(@)]
          /\ result' = [result EXCEPT ![r] =
                          [success |-> FALSE, message |-> "Parsing failed",
                           parsed_id |-> None, already_parsed |-> FALSE,
                           error |-> frame[r].err]]
          /\ Leave(r, "returned")
       \/ /\ Leave(r, "raised")
          /\ UNCHANGED <<job, result>>
    /\ UNCHANGED <<parsed, modelCalls, downloads, existedAtStart, overlap,
                   document, pdfLen, selVars, scVars, adVars, mgVars, unitVars>>

Init ==
    /\ \E d \in StoredDocuments : JobInitWith(d.row, SizeUnit * d.units)
    /\ SelIdle
    /\ ScIdle
    /\ AdIdle
    /\ MgIdle
    /\ UnitIdle

Next ==
    \E r \in Runs :
       \/ UpdateStarting(r)
       \/ GetDocument(r)
       \/ CheckExisting(r)
       \/ CompleteExisting(r)
       \/ UpdateDownloading(r)
       \/ Download(r)
       \/ ParseAnalyzing(r)
       \/ ParseExtracting(r)
       \/ ParseModelCall(r)
       \/ ParseProcessing(r)
       \/ ParseComplete(r)
       \/ ParseFailed(r)
       \/ UpdateStoring(r)
       \/ InsertParsed(r)
       \/ UpdateDocumentAI(r)
       \/ InsertEvidence(r)
       \/ CreateVendorAssessments(r)
       \/ CompleteJob(r)
       \/ FailJob(r)

Spec == Init /\ [][Next]_vars

-----------------------------------------------------------------------------
(* Claims about the job runs *)

\* C1: parse lets no exception escape: whatever fails (a model call, the
\* merge, the progress callback), it returns a ParseResult that is a success
\* with statistics or a failure with a non-empty error string.
C1_ParseNeverRaises ==
    \A r \in Runs :
      /\ frame[r].parseOutcome # "raised"
      /\ frame[r].parseOutcome = "returned" =>
           \/ /\ frame[r].parseResult.success
              /\ frame[r].parseResult.api_calls_count >= 1
           \/ /\ ~frame[r].parseResult.success
              /\ frame[r].parseResult.error \notin {"", None}

\* C2: every run that has ended, whatever step failed, has had complete_job
\* or fail_job applied to its job row, which is in a terminal status.
C2_RunEndsWithTerminalJob ==
    \A r \in Runs :
      frame[r].pc \in {"returned", "raised"} =>
        /\ job[r].completed_at
        /\ job[r].status \in {"complete", "failed"}

\* C3 as claimed: over any interleaving of the runs for the document, at most
\* one run invokes the model and at most one parsed_soc2 row is inserted.
C3_AtMostOneExtraction ==
    /\ Cardinality({r \in Runs : modelCalls[r] > 0}) <= 1
    /\ Cardinality(parsed) <= 1

\* C3 as amended: when no run passes its check (finding no row) while another
\* run that found none is still on its way to its insert, at most one
\* parsed_soc2 row is inserted, and once it is inserted no run is extracting
\* (none invokes the model any more).
C3_AtMostOneInsertWithoutOverlap ==
    ~overlap =>
      /\ Cardinality(parsed) <= 1
      /\ parsed # {} => \A r \in Runs : frame[r].pc \notin Extracting

\* Two runs that did not overlap have ended: one inserted the row, the other
\* found it and returned it.
C3_Witness ==
    /\ ~overlap
    /\ \E r1, r2 \in Runs :
         /\ r1 # r2
         /\ parsed = {RowId(r1)}
         /\ modelCalls[r1] = 1
         /\ frame[r1].pc = "returned"
         /\ frame[r2].pc = "returned"
         /\ result[r2].already_parsed
         /\ modelCalls[r2] = 0

-----------------------------------------------------------------------------
(* Strategy selection on its own: a document of any modelled size is        *)
(* estimated and a strategy selected for it                                 *)

InitSelect ==
    /\ sel_len \in {SizeUnit * k : k \in 0..MaxSizeUnits}
    /\ sel_pages = 0
    /\ sel_strategy = None
    /\ sel_pc = "input"
    /\ JobInitWith("missing", 0)
    /\ ScIdle
    /\ AdIdle
    /\ MgIdle
    /\ UnitIdle

\* parse: estimated_pages = self.gemini.estimate_pages(pdf_bytes)
Estimate ==
    /\ sel_pc = "input"
    /\ sel_pages' = estimate_pages(sel_len)
    /\ sel_pc' = "estimated"
    /\ UNCHANGED <<sel_len, sel_strategy, jobVars, scVars, adVars, mgVars, unitVars>>

\* parse: the strategy chosen for estimated_pages
Select ==
    /\ sel_pc = "estimated"
    /\ sel_strategy' = SelectStrategy(sel_pages)
    /\ sel_pc' = "selected"
    /\ UNCHANGED <<sel_len, sel_pages, jobVars, scVars, adVars, mgVars, unitVars>>

NextSelect == Estimate \/ Select

SpecSelect == InitSelect /\ [][NextSelect]_vars

-----------------------------------------------------------------------------
(* The scorer on its own: a control list of up to MaxControls controls is   *)
(* extracted, one control at a time, and mapped to the articles             *)

ControlKinds == InputCategories \X TestResults

InitScorer ==
    /\ sc_controls = <<>>
    /\ sc_mappings = <<>>
    /\ sc_coverage = NoCoverage
    /\ sc_pc = "input"
    /\ JobInitWith("missing", 0)
    /\ SelIdle
    /\ AdIdle
    /\ MgIdle
    /\ UnitIdle

\* _parse_controls: one more ControlExtraction is appended to the list; the
\* i-th control of a list has control_id "i"
AddControl ==
    /\ sc_pc = "input"
    /\ Len(sc_controls) < MaxControls
    /\ \E k \in ControlKinds :
         sc_controls' = Append(sc_controls,
                               [control_id |-> ToString(Len(sc_controls) + 1),
                                tsc_category |-> k[1],
                                test_result |-> k[2]])
    /\ UNCHANGED <<sc_mappings, sc_coverage, sc_pc, jobVars, selVars, adVars, mgVars, unitVars>>

\* result.dora_mappings = map_controls_to_dora(result.data.controls)
MapControls ==
    /\ sc_pc = "input"
    /\ sc_mappings' = map_controls_to_dora(sc_controls)
    /\ sc_pc' = "mapped"
    /\ UNCHANGED <<sc_controls, sc_coverage, jobVars, selVars, adVars, mgVars, unitVars>>

\* result.dora_coverage = calculate_dora_coverage(result.dora_mappings)
CalculateCoverage ==
    /\ sc_pc = "mapped"
    /\ sc_coverage' = calculate_dora_coverage(sc_mappings)
    /\ sc_pc' = "covered"
    /\ UNCHANGED <<sc_controls, sc_mappings, jobVars, selVars, adVars, mgVars, unitVars>>

NextScorer == AddControl \/ MapControls \/ CalculateCoverage

SpecScorer == InitScorer /\ [][NextScorer]_vars

\* C_A: the controls whose (upper-cased) category is one the article requires.
Matched(controls, article) ==
    SelectSeq(controls, LAMBDA c : upper(c.tsc_category) \in RequiredCategories(article))

-----------------------------------------------------------------------------
(* Claims about strategy selection and the scorer *)

C6_ExceptionForeclosesFull ==
    sc_pc = "mapped" =>
      \A i \in 1..Len(ArticleOrder) :
        CountResult(Matched(sc_controls, ArticleOrder[i]), "exception") > 0
          => sc_mappings[i].coverage_level # "full"

\* C7: the level of every article is the effectiveness-weighted one: none
\* without matched controls, full at ratio >= 1.0 without exceptions, partial
\* at ratio >= 0.3 otherwise, none below.
C7_LevelIsEffectivenessWeighted ==
    sc_pc = "mapped" =>
      \A i \in 1..Len(ArticleOrder) :
        sc_mappings[i].coverage_level =
          calculate_effective_coverage(Matched(sc_controls, ArticleOrder[i]),
                                       Cardinality(RequiredCategories(ArticleOrder[i])))

\* C8: when every matched control of an article is not_tested and
\* 0.1 * n / |R| < 0.3, the article's level is none.
C8_NotTestedIsNone ==
    sc_pc = "mapped" =>
      \A i \in 1..Len(ArticleOrder) :
        LET m == Matched(sc_controls, ArticleOrder[i])
            required == Cardinality(RequiredCategories(ArticleOrder[i]))
        IN  (Len(m) > 0 /\ CountResult(m, "not_tested") = Len(m)
               /\ Len(m) < 3 * required)
              => sc_mappings[i].coverage_level = "none"

\* C9: an article with no matched control has level none and confidence 0.0,
\* whatever its weight and whatever controls of other categories exist.
C9_NoControlsIsNone ==
    sc_pc = "mapped" =>
      \A i \in 1..Len(ArticleOrder) :
        Len(Matched(sc_controls, ArticleOrder[i])) = 0
          => /\ sc_mappings[i].coverage_level = "none"
             /\ sc_mappings[i].confidence = 0

\* Controls exist, some article is matched by them, and two articles of
\* different weight have no matched control.
C9_Witness ==
    /\ sc_pc = "mapped"
    /\ Len(sc_controls) > 0
    /\ \E i, j, k \in 1..Len(ArticleOrder) :
         /\ Len(Matched(sc_controls, ArticleOrder[i])) = 0
         /\ Len(Matched(sc_controls, ArticleOrder[j])) = 0
         /\ DORA_TO_TSC_MAPPING[ArticleOrder[i]].weight
              # DORA_TO_TSC_MAPPING[ArticleOrder[j]].weight
         /\ Len(Matched(sc_controls, ArticleOrder[k])) > 0
         /\ sc_mappings[i].coverage_level = "none"

\* C10: when all matched controls of an article are effective and they are
\* at least twice as many as its required categories, its level is full with
\* confidence 0.95.
C10_TwiceRequiredIsFull ==
    sc_pc = "mapped" =>
      \A i \in 1..Len(ArticleOrder) :
        LET m == Matched(sc_controls, ArticleOrder[i])
            required == Cardinality(RequiredCategories(ArticleOrder[i]))
        IN  (Len(m) >= 2 * required
               /\ CountResult(m, "operating_effectively") = Len(m))
              => /\ sc_mappings[i].coverage_level = "full"
                 /\ 100 * sc_mappings[i].confidence = 95 * ConfUnit

\* Four effective controls are matched to an article requiring two
\* categories, which is full with confidence 0.95.
C10_Witness ==
    /\ sc_pc = "mapped"
    /\ \E i \in 1..Len(ArticleOrder) :
         LET m == Matched(sc_controls, ArticleOrder[i])
         IN  /\ Cardinality(RequiredCategories(ArticleOrder[i])) = 2
             /\ Len(m) = 4
             /\ CountResult(m, "operating_effectively") = 4
             /\ sc_mappings[i].coverage_level = "full"


\* The control list with the control at position j made an exception.
ReplaceByException(cs, j) == [cs EXCEPT ![j].test_result = "exception"]

\* The control list with the controls at positions j and j + 1 exchanged.
SwapAdjacent(cs, j) ==
    [i \in 1..Len(cs) |-> IF i = j THEN cs[j + 1]
                          ELSE IF i = j + 1 THEN cs[j] ELSE cs[i]]

\* C11: for every article whose matched controls are all effective, replacing
\* one of them by an exception control (same size, same required categories)
\* gives a strictly lower confidence for the article.
C11_ExceptionLowersConfidence ==
    sc_pc = "mapped" =>
      \A i \in 1..Len(ArticleOrder) : \A j \in 1..Len(sc_controls) :
        LET m == Matched(sc_controls, ArticleOrder[i])
        IN  (/\ upper(sc_controls[j].tsc_category) \in RequiredCategories(ArticleOrder[i])
             /\ CountResult(m, "operating_effectively") = Len(m))
              => map_controls_to_dora(ReplaceByException(sc_controls, j))[i].confidence
                   < sc_mappings[i].confidence

\* C12: the mapping of every control list has exactly one entry per article
\* of the table, articles without matched controls included, and the coverage
\* calculated from it has one entry per article and articles_total equal to
\* the size of the table and of the mapping.
C12_MappingIsComplete ==
    /\ sc_pc \in {"mapped", "covered"} =>
         /\ Len(sc_mappings) = Cardinality(Articles)
         /\ \A a \in Articles :
              Cardinality({i \in 1..Len(sc_mappings) :
                             sc_mappings[i].dora_article = a}) = 1
    /\ sc_pc = "covered" =>
         /\ DOMAIN sc_coverage.coverage_by_article = Articles
         /\ sc_coverage.articles_total = Cardinality(Articles)
         /\ sc_coverage.articles_total = Len(sc_mappings)

\* The coverage of a non-empty control list is calculated; some article has
\* no matched control and has its entry, with level none.
C12_Witness ==
    /\ sc_pc = "covered"
    /\ Len(sc_controls) > 0
    /\ \E a \in Articles :
         /\ Len(Matched(sc_controls, a)) = 0
         /\ sc_coverage.coverage_by_article[a].coverage_level = "none"
    /\ sc_coverage.articles_covered > 0

\* The control list with its first control moved to the end.
Rotate(cs) == IF Len(cs) = 0 THEN cs ELSE Tail(cs) \o <<Head(cs)>>

\* The mapping and the coverage of the state are those of the control list cs
\* as far as the overall score, articles_covered and the articles' levels and
\* confidences go.
SameScores(cs) ==
    LET m2 == map_controls_to_dora(cs)
        c2 == calculate_dora_coverage(m2)
    IN  /\ c2.overall_score = sc_coverage.overall_score
        /\ c2.articles_covered = sc_coverage.articles_covered
        /\ Len(m2) = Len(sc_mappings)
        /\ \A i \in 1..Len(m2) :
             /\ m2[i].dora_article = sc_mappings[i].dora_article
             /\ m2[i].coverage_level = sc_mappings[i].coverage_level
             /\ m2[i].confidence = sc_mappings[i].confidence

\* C13: neither exchanging the first two controls of the list nor moving the
\* first control to the end changes the overall score, articles_covered or
\* any article's level or confidence. The two moves generate every
\* permutation, and this holds for every list, so the scores are invariant
\* under every reordering of the control list.
C13_ReorderInvariant ==
    (sc_pc = "covered" /\ Len(sc_controls) >= 2) =>
      /\ SameScores(SwapAdjacent(sc_controls, 1))
      /\ SameScores(Rotate(sc_controls))

\* The coverage is calculated of a list that starts with an exception control
\* followed by an effective control of the same category, both matched to an
\* article: exchanging them changes the list and the first matched control.
C13_Witness ==
    /\ sc_pc = "covered"
    /\ sc_coverage.overall_score > 0
    /\ Len(sc_controls) >= 3
    /\ sc_controls[1].test_result = "exception"
    /\ sc_controls[2].test_result = "operating_effectively"
    /\ sc_controls[1].tsc_category = sc_controls[2].tsc_category
    /\ \E a \in Articles :
         upper(sc_controls[1].tsc_category) \in RequiredCategories(a)



-----------------------------------------------------------------------------
(* The merge of the PARALLEL results on its own: the control lists of the   *)
(* CC1-CC5 call and of the CC6+ call are parsed and concatenated            *)

\* A key the model's JSON object does not have.
Missing == "<missing>"

\* The testResult strings the model returns (None is a JSON null).
RawTestResults == {"No exceptions noted", "Operating effectively",
                   "Exception noted", "Not Tested", "Inconclusive", Missing, None}

\* sub in s.lower(), for the testResult strings above, the values of
\* TestResult and the substrings _parse_controls looks for
HasSub(s, sub) ==
    CASE s = "No exceptions noted" -> sub = "exception"
      [] s = "Exception noted" -> sub = "exception"
      [] s = "Not Tested" -> sub \in {"not", "test"}
      [] s = "exception" -> sub = "exception"
      [] s = "not_tested" -> sub \in {"not", "test"}
      [] OTHER -> FALSE

\* _parse_controls: the TestResult of c.get("testResult", "operating_effectively")
parse_test_result(raw) ==
    LET result_str == IF raw = Missing THEN "operating_effectively" ELSE raw
    IN  IF HasSub(result_str, "exception") THEN "exception"
        ELSE IF HasSub(result_str, "not") /\ HasSub(result_str, "test") THEN "not_tested"
        ELSE "operating_effectively"

\* The control objects of a model result: two with the same controlId, one
\* without any key, one whose testResult is null, one whose testResult is a
\* string that names no TestResult.
RawControls ==
    {[controlId |-> "CC1.1", tscCategory |-> "CC1", testResult |-> "No exceptions noted"],
     [controlId |-> "CC6.1", tscCategory |-> "CC6", testResult |-> "Exception noted"],
     [controlId |-> "CC6.1", tscCategory |-> "CC6", testResult |-> "Not Tested"],
     [controlId |-> Missing, tscCategory |-> Missing, testResult |-> Missing],
     [controlId |-> "CC7.2", tscCategory |-> "CC7", testResult |-> None],
     [controlId |-> "CC8.1", tscCategory |-> "CC8", testResult |-> "Inconclusive"]}

\* _parse_controls, the ControlExtraction appended for one object
ControlOf(c) ==
    [control_id |-> IF c.controlId = Missing THEN "UNKNOWN" ELSE c.controlId,
     tsc_category |-> IF c.tscCategory = Missing THEN "CC1" ELSE c.tscCategory,
     test_result |-> parse_test_result(c.testResult)]

\* _parse_controls raises: None has no attribute lower
ParseControlsRaises(controls) ==
    \E i \in 1..Len(controls) : controls[i].testResult = None

\* _parse_controls: one ControlExtraction per object, in order
parse_controls(controls) == [i \in 1..Len(controls) |-> ControlOf(controls[i])]

RECURSIVE DedupById(_, _)
\* The controls of cs whose control_id is not in seen, first occurrences only.
DedupById(cs, seen) ==
    IF Len(cs) = 0 THEN <<>>
    ELSE IF Head(cs).control_id \in seen THEN DedupById(Tail(cs), seen)
    ELSE <<Head(cs)>> \o DedupById(Tail(cs), seen \cup {Head(cs).control_id})

\* A merge that keeps one control per control_id.
MergeDedup(cc1_cc5_controls, cc6_plus_controls) ==
    DedupById(cc1_cc5_controls \o cc6_plus_controls, {})

\* _merge_parallel_results: all_controls = cc1_cc5_controls + cc6_plus_controls
all_controls(cc1_cc5_controls, cc6_plus_controls) ==
    cc1_cc5_controls \o cc6_plus_controls

InitMerge ==
    /\ mg_cc1_cc5 = <<>>
    /\ mg_cc6_plus = <<>>
    /\ mg_merged = <<>>
    /\ mg_pc = "input"
    /\ JobInitWith("missing", 0)
    /\ SelIdle
    /\ ScIdle
    /\ AdIdle
    /\ UnitIdle

\* The CC1-CC5 call returns one more control object
AddCC1CC5 ==
    /\ mg_pc = "input"
    /\ mg_cc6_plus = <<>>
    /\ Len(mg_cc1_cc5) < MaxPartLen
    /\ \E c \in RawControls : mg_cc1_cc5' = Append(mg_cc1_cc5, c)
    /\ UNCHANGED <<mg_cc6_plus, mg_merged, mg_pc, jobVars, selVars, scVars, adVars, unitVars>>

\* The CC6+ call returns one more control object
AddCC6Plus ==
    /\ mg_pc = "input"
    /\ Len(mg_cc6_plus) < MaxPartLen
    /\ \E c \in RawControls : mg_cc6_plus' = Append(mg_cc6_plus, c)
    /\ UNCHANGED <<mg_cc1_cc5, mg_merged, mg_pc, jobVars, selVars, scVars, adVars, unitVars>>

\* _merge_parallel_results: both lists are parsed and concatenated, or
\* _parse_controls raises
MergeParallel ==
    /\ mg_pc = "input"
    /\ IF ParseControlsRaises(mg_cc1_cc5) \/ ParseControlsRaises(mg_cc6_plus)
         THEN /\ mg_pc' = "raised"
              /\ UNCHANGED mg_merged
         ELSE /\ mg_merged' = all_controls(parse_controls(mg_cc1_cc5),
                                           parse_controls(mg_cc6_plus))
              /\ mg_pc' = "merged"
    /\ UNCHANGED <<mg_cc1_cc5, mg_cc6_plus, jobVars, selVars, scVars, adVars, unitVars>>

NextMerge == AddCC1CC5 \/ AddCC6Plus \/ MergeParallel

SpecMerge == InitMerge /\ [][NextMerge]_vars

\* C14: the merged control list is the parsed CC1-CC5 controls followed by
\* the parsed CC6+ controls, each in its order and none dropped, so its
\* length is the sum of the two lengths, also when control ids repeat.
C14_MergeIsConcatenation ==
    mg_pc = "merged" =>
      /\ Len(mg_merged) = Len(mg_cc1_cc5) + Len(mg_cc6_plus)
      /\ \A i \in 1..Len(mg_cc1_cc5) : mg_merged[i] = ControlOf(mg_cc1_cc5[i])
      /\ \A i \in 1..Len(mg_cc6_plus) :
           mg_merged[Len(mg_cc1_cc5) + i] = ControlOf(mg_cc6_plus[i])

\* Two results that share a control id are merged: the id occurs twice.
C14_Witness ==
    /\ mg_pc = "merged"
    /\ Len(mg_cc1_cc5) > 0
    /\ Len(mg_cc6_plus) > 0
    /\ \E i \in 1..Len(mg_cc1_cc5) : \E j \in 1..Len(mg_cc6_plus) :
         /\ mg_cc1_cc5[i].controlId = mg_cc6_plus[j].controlId
         /\ mg_merged[i].control_id = mg_merged[Len(mg_cc1_cc5) + j].control_id



-----------------------------------------------------------------------------
(* One operation of the model adapter on its own, with the parser that      *)
(* called it: every call of the operation (upload, cache creation, model    *)
(* call, delete) is a step that returns or raises                           *)

Operations == {"extract_with_schema", "extract_with_caching", "run_parallel_extraction"}

\* The prompts the parser gives to each operation.
Prompts(op) ==
    CASE op = "extract_with_schema" -> <<"full">>
      [] op = "extract_with_caching" -> <<"metadata", "controls">>
      [] op = "run_parallel_extraction" -> <<"metadata", "cc1_cc5", "cc6_plus">>

\* @retry(stop=stop_after_attempt(3), ...)
MAX_ATTEMPTS == 3

\* A retry wrapper that allows one attempt more.
AttemptsOneMore(op) == IF op = "extract_with_schema" THEN MAX_ATTEMPTS + 1 ELSE 1

\* The attempts an operation is given: only extract_with_schema is decorated
\* with @retry
Attempts(op) == IF op = "extract_with_schema" THEN MAX_ATTEMPTS ELSE 1

\* json.loads(response.text) of the call for a prompt: the data it asked for.
DataOf(prompt) == prompt

\* The calls of the operation before any has started.
NoCalls(op) == [i \in 1..Len(Prompts(op)) |-> "idle"]

\* Results collected in the order the calls completed.
GatherByCompletion(prompts, order) ==
    [i \in 1..Len(prompts) |-> DataOf(prompts[order[i]])]

\* results = await asyncio.gather(*tasks): the results in the order of the
\* tasks, whatever the order in which they completed
GatherResults(prompts, order) ==
    [i \in 1..Len(prompts) |-> DataOf(prompts[i])]

\* A gather that returns as soon as no call is running, failed calls included.
GatherReadyWhenSettled(calls) == \A i \in DOMAIN calls : calls[i] # "running"

\* asyncio.gather returns when every task has returned
GatherReady(calls) == \A i \in DOMAIN calls : calls[i] = "ok"

\* asyncio.gather raises the first exception of a task
BatchFails(calls) == \E i \in DOMAIN calls : calls[i] = "failed"

\* A try body left without its cache ever being deleted.
FinallySkipsCache(op) == "delete_file"

\* The finally clause entered when the try body with the model calls is left
FinallyAfterCalls(op) ==
    IF op = "extract_with_schema" THEN "delete_file" ELSE "delete_cache"

\* A call of the operation is still running.
InFlight == \E i \in DOMAIN ad_calls : ad_calls[i] = "running"

InitAdapter ==
    /\ ad_op \in Operations
    /\ ad_pc = "upload"
    /\ ad_attempt = 1
    /\ ad_files = <<>>
    /\ ad_cache = "none"
    /\ ad_calls = NoCalls(ad_op)
    /\ ad_order = <<>>
    /\ ad_results = <<>>
    /\ ad_returned = <<>>
    /\ ad_outcome = "running"
    /\ ad_exc = FALSE
    /\ ad_callFailures = 0
    /\ ad_otherFaults = 0
    /\ ad_modelCalls = 0
    /\ ad_malformedAt = 0
    /\ ad_releasedInFlight = FALSE
    /\ ad_parse = None
    /\ ad_record = FALSE
    /\ JobInitWith("missing", 0)
    /\ SelIdle
    /\ ScIdle
    /\ MgIdle
    /\ UnitIdle

\* What no step of the adapter writes.
AdRest == <<ad_op, jobVars, selVars, scVars, mgVars, unitVars>>

\* The count of the model calls and the first malformed response.
AdCalls == <<ad_modelCalls, ad_malformedAt>>

\* json.loads(response.text) raises on a response that is not JSON: the
\* first such response is noted with the model calls issued until then
NoteMalformed(issued) ==
    ad_malformedAt' = IF ad_malformedAt = 0 THEN issued ELSE ad_malformedAt

\* The attempt ends with an exception: the retry wrapper starts the next
\* attempt, or the exception leaves the operation; a CancelledError is no
\* Exception and is never retried
AttemptFails ==
    IF ad_outcome = "cancelling"
      THEN /\ ad_pc' = "done"
           /\ ad_outcome' = "cancelled"
           /\ UNCHANGED <<ad_attempt, ad_exc, ad_calls, ad_results, ad_order,
                          ad_returned>>
    ELSE IF ad_attempt < Attempts(ad_op)
      THEN /\ ad_attempt' = ad_attempt + 1
           /\ ad_pc' = "upload"
           /\ ad_exc' = FALSE
           /\ ad_calls' = NoCalls(ad_op)
           /\ ad_results' = <<>>
           /\ ad_order' = <<>>
           /\ UNCHANGED <<ad_outcome, ad_returned>>
      ELSE /\ ad_pc' = "done"
           /\ ad_outcome' = "raised"
           /\ ad_exc' = TRUE
           /\ ad_results' = <<>>
           /\ UNCHANGED <<ad_attempt, ad_calls, ad_order, ad_returned>>

\* return data, usage / return results, total_usage
AttemptReturns ==
    /\ ad_pc' = "done"
    /\ ad_outcome' = "returned"
    /\ ad_returned' = ad_results
    /\ UNCHANGED <<ad_attempt, ad_exc, ad_calls, ad_results, ad_order>>

\* file = await asyncio.to_thread(genai.upload_file, ...), before the try
Upload ==
    /\ ad_pc = "upload"
    /\ \/ /\ ad_files' = Append(ad_files, "uploaded")
          /\ ad_pc' = IF ad_op = "extract_with_schema" THEN "generate" ELSE "create_cache"
          /\ UNCHANGED <<ad_attempt, ad_calls, ad_order, ad_results, ad_returned,
                         ad_outcome, ad_exc, ad_otherFaults>>
       \/ /\ ad_files' = Append(ad_files, "none")
          /\ ad_otherFaults' = ad_otherFaults + 1
          /\ AttemptFails
    /\ UNCHANGED <<ad_cache, ad_callFailures, ad_releasedInFlight, ad_parse,
                   ad_record, AdCalls, AdRest>>

\* cache = await asyncio.to_thread(genai.caching.CachedContent.create, ...);
\* in run_parallel_extraction the tasks of all prompts are then started
CreateCache ==
    /\ ad_pc = "create_cache"
    /\ \/ /\ ad_cache' = "created"
          /\ IF ad_op = "run_parallel_extraction"
               THEN /\ ad_pc' = "gather"
                    /\ ad_calls' = [i \in DOMAIN ad_calls |-> "running"]
                    /\ ad_modelCalls' = ad_modelCalls + Len(Prompts(ad_op))
               ELSE /\ ad_pc' = "generate"
                    /\ UNCHANGED <<ad_calls, ad_modelCalls>>
          /\ UNCHANGED <<ad_exc, ad_otherFaults>>
       \/ /\ ad_pc' = "delete_file"
          /\ ad_exc' = TRUE
          /\ ad_otherFaults' = ad_otherFaults + 1
          /\ UNCHANGED <<ad_cache, ad_calls, ad_modelCalls>>
    /\ UNCHANGED <<ad_attempt, ad_files, ad_order, ad_results, ad_returned,
                   ad_outcome, ad_callFailures, ad_malformedAt,
                   ad_releasedInFlight, ad_parse, ad_record, AdRest>>

\* response = await asyncio.to_thread(model.generate_content, ...) and
\* json.loads(response.text) for the next prompt, awaited in sequence: the
\* data is returned, the call raises, or the response is not JSON
Generate ==
    /\ ad_pc = "generate"
    /\ LET i == Len(ad_results) + 1
       IN  \/ /\ ad_calls' = [ad_calls EXCEPT ![i] = "ok"]
              /\ ad_results' = Append(ad_results, DataOf(Prompts(ad_op)[i]))
              /\ ad_order' = Append(ad_order, i)
              /\ ad_pc' = IF i = Len(Prompts(ad_op))
                            THEN FinallyAfterCalls(ad_op) ELSE "generate"
              /\ UNCHANGED <<ad_exc, ad_callFailures, ad_otherFaults, ad_malformedAt>>
           \/ /\ ad_calls' = [ad_calls EXCEPT ![i] = "failed"]
              /\ ad_callFailures' = ad_callFailures + 1
              /\ ad_exc' = TRUE
              /\ ad_pc' = FinallyAfterCalls(ad_op)
              /\ UNCHANGED <<ad_results, ad_order, ad_otherFaults, ad_malformedAt>>
           \/ /\ ad_calls' = [ad_calls EXCEPT ![i] = "failed"]
              /\ ad_otherFaults' = ad_otherFaults + 1
              /\ NoteMalformed(ad_modelCalls + 1)
              /\ ad_exc' = TRUE
              /\ ad_pc' = FinallyAfterCalls(ad_op)
              /\ UNCHANGED <<ad_results, ad_order, ad_callFailures>>
    /\ ad_modelCalls' = ad_modelCalls + 1
    /\ UNCHANGED <<ad_attempt, ad_files, ad_cache, ad_returned, ad_outcome,
                   ad_releasedInFlight, ad_parse, ad_record, AdRest>>

\* run_single_prompt of prompt i returns its data
CallCompletes(i) ==
    /\ ad_calls[i] = "running"
    /\ ad_calls' = [ad_calls EXCEPT ![i] = "ok"]
    /\ ad_order' = Append(ad_order, i)
    /\ UNCHANGED <<ad_pc, ad_attempt, ad_files, ad_cache, ad_results, ad_returned,
                   ad_outcome, ad_exc, ad_callFailures, ad_otherFaults,
                   ad_releasedInFlight, ad_parse, ad_record, AdCalls, AdRest>>

\* run_single_prompt of prompt i raises: its generate_content call failed or
\* its response is not JSON
CallFails(i) ==
    /\ ad_calls[i] = "running"
    /\ ad_calls' = [ad_calls EXCEPT ![i] = "failed"]
    /\ \/ /\ ad_callFailures' = ad_callFailures + 1
          /\ UNCHANGED <<ad_otherFaults, ad_malformedAt>>
       \/ /\ ad_otherFaults' = ad_otherFaults + 1
          /\ NoteMalformed(ad_modelCalls)
          /\ UNCHANGED ad_callFailures
    /\ UNCHANGED <<ad_pc, ad_attempt, ad_files, ad_cache, ad_order, ad_results,
                   ad_returned, ad_outcome, ad_exc, ad_modelCalls,
                   ad_releasedInFlight, ad_parse, ad_record, AdRest>>

\* results = await asyncio.gather(*tasks) returns; extracted_data is built
GatherReturns ==
    /\ ad_pc = "gather"
    /\ GatherReady(ad_calls)
    /\ ad_results' = GatherResults(Prompts(ad_op), ad_order)
    /\ ad_pc' = FinallyAfterCalls(ad_op)
    /\ UNCHANGED <<ad_attempt, ad_files, ad_cache, ad_calls, ad_order, ad_returned,
                   ad_outcome, ad_exc, ad_callFailures, ad_otherFaults,
                   ad_releasedInFlight, ad_parse, ad_record, AdCalls, AdRest>>

\* await asyncio.gather(*tasks) raises the exception of a failed task; the
\* other tasks are not cancelled
GatherRaises ==
    /\ ad_pc = "gather"
    /\ BatchFails(ad_calls)
    /\ ad_exc' = TRUE
    /\ ad_pc' = FinallyAfterCalls(ad_op)
    /\ UNCHANGED <<ad_attempt, ad_files, ad_cache, ad_calls, ad_order, ad_results,
                   ad_returned, ad_outcome, ad_callFailures, ad_otherFaults,
                   ad_releasedInFlight, ad_parse, ad_record, AdCalls, AdRest>>

\* finally: await asyncio.to_thread(cache.delete)
DeleteCache ==
    /\ ad_pc = "delete_cache"
    /\ ad_releasedInFlight' = (ad_releasedInFlight \/ InFlight)
    /\ ad_pc' = "delete_file"
    /\ \/ /\ ad_cache' = "deleted"
          /\ UNCHANGED <<ad_exc, ad_otherFaults>>
       \/ /\ ad_cache' = "delete_failed"
          /\ ad_exc' = TRUE
          /\ ad_otherFaults' = ad_otherFaults + 1
    /\ UNCHANGED <<ad_attempt, ad_files, ad_calls, ad_order, ad_results,
                   ad_returned, ad_outcome, ad_callFailures, ad_parse, ad_record,
                   AdCalls, AdRest>>

\* finally: await asyncio.to_thread(genai.delete_file, file.name), after which
\* the operation returns or the pending exception goes on
DeleteFile ==
    /\ ad_pc = "delete_file"
    /\ ad_releasedInFlight' = (ad_releasedInFlight \/ InFlight)
    /\ \/ /\ ad_files' = [ad_files EXCEPT ![ad_attempt] = "deleted"]
          /\ UNCHANGED ad_otherFaults
          /\ IF ad_exc THEN AttemptFails ELSE AttemptReturns
       \/ /\ ad_files' = [ad_files EXCEPT ![ad_attempt] = "delete_failed"]
          /\ ad_otherFaults' = ad_otherFaults + 1
          /\ AttemptFails
    /\ UNCHANGED <<ad_cache, ad_callFailures, ad_parse, ad_record, AdCalls, AdRest>>

\* _single_pass / _two_pass / _parallel_extraction and parse: the results are
\* merged into a successful ParseResult, or the exception of the operation
\* or of the merge ends in parse's except clause, which returns a failed one
ParserReceives ==
    /\ ad_pc = "done"
    /\ ad_parse = None
    /\ \/ /\ ad_outcome = "returned"
          /\ ad_parse' = "success"
          /\ UNCHANGED ad_otherFaults
       \/ /\ ad_outcome = "returned"
          /\ ad_parse' = "failed"
          /\ ad_otherFaults' = ad_otherFaults + 1
       \/ /\ ad_outcome = "raised"
          /\ ad_parse' = "failed"
          /\ UNCHANGED ad_otherFaults
    /\ UNCHANGED <<ad_pc, ad_attempt, ad_files, ad_cache, ad_calls, ad_order,
                   ad_results, ad_returned, ad_outcome, ad_exc, ad_callFailures,
                   ad_releasedInFlight, ad_record, AdCalls, AdRest>>

\* parse_soc2_document: if not result.success: raise ...; otherwise the
\* parsed_soc2 row is inserted
InsertRecord ==
    /\ ad_parse = "success"
    /\ ~ad_record
    /\ ad_record' = TRUE
    /\ UNCHANGED <<ad_pc, ad_attempt, ad_files, ad_cache, ad_calls, ad_order,
                   ad_results, ad_returned, ad_outcome, ad_exc, ad_callFailures,
                   ad_otherFaults, ad_releasedInFlight, ad_parse, AdCalls, AdRest>>

NextAdapter ==
    \/ Upload
    \/ CreateCache
    \/ Generate
    \/ \E i \in DOMAIN ad_calls : CallCompletes(i)
    \/ \E i \in DOMAIN ad_calls : CallFails(i)
    \/ GatherReturns
    \/ GatherRaises
    \/ DeleteCache
    \/ DeleteFile
    \/ ParserReceives
    \/ InsertRecord

SpecAdapter == InitAdapter /\ [][NextAdapter]_vars



-----------------------------------------------------------------------------
(* Claims about the adapter operations                                      *)

\* C15: in a parallel batch that returns, the i-th returned result is the
\* data of the i-th prompt (metadata, CC1-CC5 controls, CC6+ controls),
\* whatever the order in which the concurrent calls completed.
C15_ResultsInPromptOrder ==
    (ad_op = "run_parallel_extraction" /\ ad_outcome = "returned")
        => /\ Len(ad_returned) = Len(Prompts(ad_op))
           /\ \A i \in DOMAIN ad_returned :
                  ad_returned[i] = DataOf(Prompts(ad_op)[i])
           /\ ad_returned = <<"metadata", "cc1_cc5", "cc6_plus">>

\* A parallel batch has returned whose calls completed last prompt first.
C15_Witness ==
    /\ ad_op = "run_parallel_extraction"
    /\ ad_outcome = "returned"
    /\ ad_order = <<3, 1, 2>>

\* C16: when an operation has returned or raised, a delete has been issued
\* for every file it uploaded and for the cache it created, on the success
\* path and on every failure path; a retried attempt has issued the delete
\* of its file before the next attempt uploads.
C16_ResourcesReleased ==
    /\ ad_pc = "done"
          => /\ \A k \in DOMAIN ad_files : ad_files[k] # "uploaded"
             /\ ad_cache # "created"
    /\ \A k \in DOMAIN ad_files : k < ad_attempt => ad_files[k] # "uploaded"

\* A batch has raised because a model call failed, after creating a file and
\* a cache that were both deleted.
C16_Witness ==
    /\ ad_op = "extract_with_caching"
    /\ ad_outcome = "raised"
    /\ ad_callFailures = 1
    /\ ad_files = <<"deleted">>
    /\ ad_cache = "deleted"

\* C17: in a parallel batch the cache and the uploaded file are deleted only
\* when no fanned-out model call is still in flight.
C17_ReleasedOnlyAfterBatch ==
    ad_op = "run_parallel_extraction" => ~ad_releasedInFlight

\* C18: in extract_with_caching and run_parallel_extraction, when a model
\* call of the batch has failed the operation does not return, it raises
\* with no result list, the parser reports no success and no record is
\* inserted.
C18_BatchAllOrNothing ==
    (ad_op # "extract_with_schema" /\ BatchFails(ad_calls))
        => /\ ad_outcome # "returned"
           /\ ad_returned = <<>>
           /\ ad_pc = "done" => ad_outcome = "raised"
           /\ ad_parse # "success"
           /\ ~ad_record

\* A parallel batch in which two calls succeeded and one failed has raised,
\* and the parser has returned a failed result.
C18_Witness ==
    /\ ad_op = "run_parallel_extraction"
    /\ ad_calls = <<"ok", "failed", "ok">>
    /\ ad_outcome = "raised"
    /\ ad_parse = "failed"
    /\ ~ad_record

\* C19: extract_with_schema makes at most 3 attempts; when it returns, it
\* returns the data of the attempt that succeeded, every earlier attempt
\* having failed; when it raises, the third attempt has failed.
C19_CappedRetry ==
    ad_op = "extract_with_schema"
        => /\ ad_attempt <= MAX_ATTEMPTS
           /\ Len(ad_files) <= MAX_ATTEMPTS
           /\ ad_outcome = "returned"
                 => /\ ad_returned = <<DataOf("full")>>
                    /\ ad_calls = <<"ok">>
                    /\ ad_callFailures + ad_otherFaults >= ad_attempt - 1
                    /\ ad_pc = "done"
           /\ ad_outcome = "raised"
                 => /\ ad_attempt = MAX_ATTEMPTS
                    /\ ad_callFailures + ad_otherFaults >= MAX_ATTEMPTS
                    /\ ad_returned = <<>>
                    /\ ad_pc = "done"

\* extract_with_schema has returned at its third attempt, after two attempts
\* whose model call failed.
C19_Witness ==
    /\ ad_op = "extract_with_schema"
    /\ ad_outcome = "returned"
    /\ ad_attempt = MAX_ATTEMPTS
    /\ ad_callFailures = MAX_ATTEMPTS - 1
    /\ ad_otherFaults = 0

\* C20: in every strategy a failed result of parse takes model-call failures
\* up to the attempt ceiling (or a failure of another kind): one failure of
\* one model call alone does not make parse fail.
C20_TransientFailureRetried ==
    ad_parse = "failed"
        => \/ ad_otherFaults > 0
           \/ ad_callFailures >= MAX_ATTEMPTS



\* C21: a response that is malformed JSON is surfaced at once: after the
\* first malformed response of an operation no further model call is issued
\* by it, and exactly one attempt is made.
C21_MalformedNeverRetried ==
    ad_malformedAt > 0
        => /\ ad_modelCalls = ad_malformedAt
           /\ ad_attempt = 1



-----------------------------------------------------------------------------
(* One call of parse with the progress notifications it makes: every call   *)
(* of on_progress is noted with its phase and percentage, and with whether  *)
(* the callback raised                                                      *)

\* No other part of the model is running.
CoreIdle == JobInitWith("missing", 0) /\ SelIdle /\ ScIdle /\ AdIdle /\ MgIdle

\* The page counts tried: both sides of each strategy threshold.
PagesTried == {1, SINGLE_PASS_MAX_PAGES, SINGLE_PASS_MAX_PAGES + 1,
               TWO_PASS_MAX_PAGES, TWO_PASS_MAX_PAGES + 1}

\* Checkpoints in which the except clause reports no 'failed' phase.
CheckpointKeepsPhase(site, strategy) ==
    CASE site = "analyzing" -> [phase |-> "analyzing", percentage |-> 5]
      [] site = "extracting" ->
            [phase |-> "extracting",
             percentage |-> IF strategy = "SINGLE_PASS" THEN 20 ELSE 15]
      [] site = "processing" -> [phase |-> "processing", percentage |-> 80]
      [] site = "complete" -> [phase |-> "complete", percentage |-> 100]
      [] site = "failed" -> [phase |-> "processing", percentage |-> 0]

\* The arguments of update_progress at each of its call sites
Checkpoint(site, strategy) ==
    CASE site = "analyzing" -> [phase |-> "analyzing", percentage |-> 5]
      [] site = "extracting" ->
            [phase |-> "extracting",
             percentage |-> IF strategy = "SINGLE_PASS" THEN 20 ELSE 15]
      [] site = "processing" -> [phase |-> "processing", percentage |-> 80]
      [] site = "complete" -> [phase |-> "complete", percentage |-> 100]
      [] site = "failed" -> [phase |-> "failed", percentage |-> 0]

\* The note of a call of on_progress at a call site.
Note(site, raised) ==
    LET c == Checkpoint(site, SelectStrategy(pg_pages))
    IN  [phase |-> c.phase, percentage |-> c.percentage, raised |-> raised]

InitProgress ==
    /\ pg_pages \in PagesTried
    /\ pg_callback \in BOOLEAN
    /\ pg_pc = "analyzing"
    /\ pg_notes = <<>>
    /\ pg_finished = {}
    /\ pg_outcome = "running"
    /\ CoreIdle
    /\ FjIdle
    /\ UqIdle
    /\ TpIdle
    /\ MoreIdle

\* What no step of parse writes.
PgRest == <<pg_pages, pg_callback, coreVars, fjVars, uqVars, tpVars, moreVars>>

\* update_progress(...) at a call site inside the try: without a callback
\* nothing is called; with one, on_progress returns and parse goes on to
\* `next`, or it raises and the except clause is entered
UpdateProgress(site, next) ==
    IF pg_callback
      THEN \/ /\ pg_notes' = Append(pg_notes, Note(site, FALSE))
              /\ pg_pc' = next
           \/ /\ pg_notes' = Append(pg_notes, Note(site, TRUE))
              /\ pg_pc' = "failed"
      ELSE /\ pg_pc' = next
           /\ UNCHANGED pg_notes

\* estimate_pages, estimate_tokens and update_progress("analyzing", 5, ...)
PgAnalyzing ==
    /\ pg_pc = "analyzing"
    /\ UpdateProgress("analyzing", "extracting")
    /\ UNCHANGED <<pg_finished, pg_outcome, PgRest>>

\* the strategy's update_progress("extracting", 20 or 15, ...)
PgExtracting ==
    /\ pg_pc = "extracting"
    /\ UpdateProgress("extracting", "model")
    /\ UNCHANGED <<pg_finished, pg_outcome, PgRest>>

\* the adapter operation of the strategy returns its results or raises
PgModelCall ==
    /\ pg_pc = "model"
    /\ \/ /\ pg_pc' = "processing"
          /\ pg_finished' = pg_finished \cup {"extraction"}
       \/ /\ pg_pc' = "failed"
          /\ UNCHANGED pg_finished
    /\ UNCHANGED <<pg_notes, pg_outcome, PgRest>>

\* the strategy's update_progress("processing", 80, ...)
PgProcessing ==
    /\ pg_pc = "processing"
    /\ UpdateProgress("processing", "merge")
    /\ UNCHANGED <<pg_finished, pg_outcome, PgRest>>

\* _parse_full_extraction / _merge_two_pass_results / _merge_parallel_results
\* returns the typed result or raises
PgMerge ==
    /\ pg_pc = "merge"
    /\ \/ /\ pg_pc' = "scoring"
          /\ pg_finished' = pg_finished \cup {"merge"}
       \/ /\ pg_pc' = "failed"
          /\ UNCHANGED pg_finished
    /\ UNCHANGED <<pg_notes, pg_outcome, PgRest>>

\* the result metadata, the statistics and, with controls, map_controls_to_dora
\* and calculate_dora_coverage, which return or raise
PgScoring ==
    /\ pg_pc = "scoring"
    /\ \/ /\ pg_pc' = "complete"
          /\ pg_finished' = pg_finished \cup {"scoring"}
       \/ /\ pg_pc' = "failed"
          /\ UNCHANGED pg_finished
    /\ UNCHANGED <<pg_notes, pg_outcome, PgRest>>

\* update_progress("complete", 100, ...); return result
PgComplete ==
    /\ pg_pc = "complete"
    /\ UpdateProgress("complete", "done")
    /\ pg_outcome' = IF pg_pc' = "done" THEN "returned" ELSE pg_outcome
    /\ UNCHANGED <<pg_finished, PgRest>>

\* except Exception as e: update_progress("failed", 0, str(e)); return the
\* failed ParseResult; an exception of the callback leaves parse
PgFailed ==
    /\ pg_pc = "failed"
    /\ pg_pc' = "done"
    /\ IF pg_callback
         THEN \/ /\ pg_notes' = Append(pg_notes, Note("failed", FALSE))
                 /\ pg_outcome' = "returned_failed"
              \/ /\ pg_notes' = Append(pg_notes, Note("failed", TRUE))
                 /\ pg_outcome' = "raised"
         ELSE /\ pg_outcome' = "returned_failed"
              /\ UNCHANGED pg_notes
    /\ UNCHANGED <<pg_finished, PgRest>>

NextProgress ==
    \/ PgAnalyzing
    \/ PgExtracting
    \/ PgModelCall
    \/ PgProcessing
    \/ PgMerge
    \/ PgScoring
    \/ PgComplete
    \/ PgFailed

SpecProgress == InitProgress /\ [][NextProgress]_vars

\* The notifications with a terminal phase.
TerminalNotes == {i \in DOMAIN pg_notes : pg_notes[i].phase \in {"complete", "failed"}}

\* C22: when parse has returned its error result and a callback was given,
\* the last call of the callback was made with phase 'failed' and returned.
C22_FailedNotifiedBeforeErrorResult ==
    (pg_outcome = "returned_failed" /\ pg_callback)
        => /\ Len(pg_notes) > 0
           /\ pg_notes[Len(pg_notes)].phase = "failed"
           /\ ~pg_notes[Len(pg_notes)].raised

\* parse has returned its error result after the merge raised: analyzing,
\* extracting and processing were notified before 'failed'.
C22_Witness ==
    /\ pg_outcome = "returned_failed"
    /\ pg_callback
    /\ pg_finished = {"extraction"}
    /\ Len(pg_notes) = 4
    /\ \A i \in 1..3 : ~pg_notes[i].raised

\* C23: within one parse the percentages passed to the callback never
\* decrease, on success and on failure paths.
C23_PercentagesNonDecreasing ==
    \A i, j \in DOMAIN pg_notes :
        i < j => pg_notes[i].percentage <= pg_notes[j].percentage

\* C28: 'complete' is notified only after extraction, merge and scoring have
\* finished, at most one terminal notification is made per parse (exactly
\* one once parse has returned with a callback), and no notification follows
\* a terminal one.
C28_TerminalNotificationsAbsorbing ==
    /\ \A i \in DOMAIN pg_notes :
          pg_notes[i].phase = "complete"
             => pg_finished = {"extraction", "merge", "scoring"}
    /\ Cardinality(TerminalNotes) <= 1
    /\ (pg_callback /\ pg_outcome \in {"returned", "returned_failed"})
          => Cardinality(TerminalNotes) = 1
    /\ \A i \in TerminalNotes : i = Len(pg_notes)


-----------------------------------------------------------------------------
(* Claims about the normalization of test results                           *)

\* A testResult that names none of the TestResult values: the key is missing,
\* or the string has neither 'exception', nor 'not' and 'test', nor
\* 'operating effectively' in it.
Unrecognized(raw) ==
    \/ raw = Missing
    \/ /\ raw # None
       /\ raw # "Operating effectively"
       /\ ~HasSub(raw, "exception")
       /\ ~(HasSub(raw, "not") /\ HasSub(raw, "test"))

\* C24: a control whose testResult is unrecognized or missing is not
\* classified as operating_effectively by _parse_controls.
C24_UnrecognizedNotEffective ==
    mg_pc = "merged"
        => \A i \in 1..Len(mg_cc1_cc5) :
              Unrecognized(mg_cc1_cc5[i].testResult)
                 => mg_merged[i].test_result # "operating_effectively"


-----------------------------------------------------------------------------
(* fail_job on its own: the texts it stores on the job row, by their length *)

\* The longest error message tried.
MaxErrorLen == 600

\* current_message: error_message[:500]
MESSAGE_LIMIT == 500

Min(a, b) == IF a <= b THEN a ELSE b

\* len(s[:n]) of a string of length len
SliceLen(len, n) == Min(len, n)

InitFailJob ==
    /\ fj_error_len \in 0..MaxErrorLen
    /\ fj_row = NoRow
    /\ fj_pc = "handler"
    /\ CoreIdle
    /\ PgIdle
    /\ UqIdle
    /\ TpIdle
    /\ MoreIdle

\* supabase.fail_job(job_id, error_message=str(e)): the update of the job row
\* is executed, or the storage call raises
FailJobStores ==
    /\ fj_pc = "handler"
    /\ \/ /\ fj_row' = [status |-> "failed",
                        current_message |-> SliceLen(fj_error_len, MESSAGE_LIMIT),
                        error_message |-> fj_error_len]
          /\ fj_pc' = "stored"
       \/ /\ fj_pc' = "raised"
          /\ UNCHANGED fj_row
    /\ UNCHANGED <<fj_error_len, coreVars, pgVars, uqVars, tpVars, moreVars>>

NextFailJob == FailJobStores

SpecFailJob == InitFailJob /\ [][NextFailJob]_vars

\* C25: after fail_job every error text stored on the job row is at most 500
\* characters long, whatever the length of the error message.
C25_StoredErrorBounded ==
    fj_pc = "stored"
        => /\ fj_row.current_message <= MESSAGE_LIMIT
           /\ fj_row.error_message <= MESSAGE_LIMIT


-----------------------------------------------------------------------------
(* An adapter operation that is cancelled once, at one of its awaits: the   *)
(* await raises CancelledError while the call goes on in its worker thread  *)

\* await asyncio.to_thread(genai.upload_file, ...) is cancelled, before the
\* try: the thread finishes the upload or fails, the file is never bound
CancelDuringUpload ==
    /\ ad_outcome = "running"
    /\ ad_pc = "upload"
    /\ \E f \in {"uploaded", "none"} : ad_files' = Append(ad_files, f)
    /\ ad_pc' = "done"
    /\ ad_outcome' = "cancelled"
    /\ UNCHANGED <<ad_attempt, ad_cache, ad_calls, ad_order, ad_results,
                   ad_returned, ad_exc, ad_callFailures, ad_otherFaults,
                   ad_releasedInFlight, ad_parse, ad_record, AdCalls, AdRest>>

\* await asyncio.to_thread(CachedContent.create, ...) is cancelled, before
\* the inner try: the thread creates the cache or fails, the outer finally
\* is entered
CancelDuringCreateCache ==
    /\ ad_outcome = "running"
    /\ ad_pc = "create_cache"
    /\ ad_cache' \in {"created", "none"}
    /\ ad_pc' = "delete_file"
    /\ ad_exc' = TRUE
    /\ ad_outcome' = "cancelling"
    /\ UNCHANGED <<ad_attempt, ad_files, ad_calls, ad_order, ad_results,
                   ad_returned, ad_callFailures, ad_otherFaults,
                   ad_releasedInFlight, ad_parse, ad_record, AdCalls, AdRest>>

\* the await of a model call, or of asyncio.gather, is cancelled: the
\* finally clause after the calls is entered
CancelDuringCalls ==
    /\ ad_outcome = "running"
    /\ ad_pc \in {"generate", "gather"}
    /\ IF ad_pc = "generate"
         THEN /\ ad_calls' = [ad_calls EXCEPT ![Len(ad_results) + 1] = "running"]
              /\ ad_modelCalls' = ad_modelCalls + 1
         ELSE UNCHANGED <<ad_calls, ad_modelCalls>>
    /\ ad_pc' = FinallyAfterCalls(ad_op)
    /\ ad_exc' = TRUE
    /\ ad_outcome' = "cancelling"
    /\ UNCHANGED <<ad_attempt, ad_files, ad_cache, ad_order, ad_results,
                   ad_returned, ad_callFailures, ad_otherFaults, ad_malformedAt,
                   ad_releasedInFlight, ad_parse, ad_record, AdRest>>

\* the await of cache.delete or of genai.delete_file in a finally clause is
\* cancelled: the delete goes on in its thread, CancelledError goes on to
\* the next finally clause or leaves the operation
CancelDuringDelete ==
    /\ ad_outcome = "running"
    /\ ad_pc \in {"delete_cache", "delete_file"}
    /\ ad_releasedInFlight' = (ad_releasedInFlight \/ InFlight)
    /\ ad_exc' = TRUE
    /\ IF ad_pc = "delete_cache"
         THEN /\ ad_cache' \in {"deleted", "delete_failed"}
              /\ ad_pc' = "delete_file"
              /\ ad_outcome' = "cancelling"
              /\ UNCHANGED ad_files
         ELSE /\ \E f \in {"deleted", "delete_failed"} :
                    ad_files' = [ad_files EXCEPT ![ad_attempt] = f]
              /\ ad_pc' = "done"
              /\ ad_outcome' = "cancelled"
              /\ UNCHANGED ad_cache
    /\ UNCHANGED <<ad_attempt, ad_calls, ad_order, ad_results, ad_returned,
                   ad_callFailures, ad_otherFaults, ad_parse, ad_record,
                   AdCalls, AdRest>>

NextCancel ==
    \/ NextAdapter
    \/ CancelDuringUpload
    \/ CancelDuringCreateCache
    \/ CancelDuringCalls
    \/ CancelDuringDelete

SpecCancel == InitAdapter /\ [][NextCancel]_vars

\* C26: when a cancelled operation has ended, every file it uploaded and
\* every cache it created has had its delete issued.
C26_CancelReleasesResources ==
    ad_outcome = "cancelled"
        => /\ \A k \in DOMAIN ad_files : ad_files[k] # "uploaded"
           /\ ad_cache # "created"


-----------------------------------------------------------------------------
(* upsert_questionnaire_answer for one (questionnaire_id, question_id),     *)
(* with another writer that stores manual or confirmed answers for it       *)

AiAnswers == {"ai answer 1", "ai answer 2"}
WriterAnswers == {"manual answer 1", "manual answer 2"}
WriterSources == {"manual", "confirmed"}

\* The rows the call may find when it starts.
StoredAnswers ==
    {NoAnswer}
      \cup {[source |-> "ai_extracted", answer_text |-> a] : a \in AiAnswers}
      \cup {[source |-> src, answer_text |-> a] : src \in WriterSources, a \in WriterAnswers}

\* select("id, source").eq(...).eq(...).execute().data
SelectSource(row) == IF row.source = "absent" THEN <<>> ELSE <<row.source>>

\* if existing.data and len(existing.data) > 0:
\*     if existing.data[0]["source"] not in ["ai_extracted"]: return False
KeepsExisting(existing) ==
    Len(existing) > 0 /\ existing[1] \notin {"ai_extracted"}

InitUpsert ==
    /\ uq_row \in StoredAnswers
    /\ uq_answer \in AiAnswers
    /\ uq_pc = "select"
    /\ uq_existing = <<>>
    /\ uq_result = None
    /\ uq_lost = FALSE
    /\ CoreIdle
    /\ PgIdle
    /\ FjIdle
    /\ TpIdle
    /\ MoreIdle

UqRest == <<uq_answer, coreVars, pgVars, fjVars, tpVars, moreVars>>

\* The select of the existing answer and the check of its source; an
\* exception ends in the except clause, which returns False
UqSelect ==
    /\ uq_pc = "select"
    /\ \/ /\ uq_existing' = SelectSource(uq_row)
          /\ IF KeepsExisting(uq_existing')
               THEN /\ uq_pc' = "done"
                    /\ uq_result' = "False"
               ELSE /\ uq_pc' = "upsert"
                    /\ UNCHANGED uq_result
       \/ /\ uq_pc' = "done"
          /\ uq_result' = "False"
          /\ UNCHANGED uq_existing
    /\ UNCHANGED <<uq_row, uq_lost, UqRest>>

\* The upsert on (questionnaire_id, question_id) with source 'ai_extracted',
\* then return True; an exception ends in the except clause
UqUpsert ==
    /\ uq_pc = "upsert"
    /\ uq_pc' = "done"
    /\ \/ /\ uq_row' = [source |-> "ai_extracted", answer_text |-> uq_answer]
          /\ uq_lost' = (uq_lost \/ uq_row.source \in WriterSources)
          /\ uq_result' = "True"
       \/ /\ uq_result' = "False"
          /\ UNCHANGED <<uq_row, uq_lost>>
    /\ UNCHANGED <<uq_existing, UqRest>>

\* Another writer stores a manual or confirmed answer in the row.
WriterStores ==
    /\ \E src \in WriterSources, a \in WriterAnswers :
          uq_row' = [source |-> src, answer_text |-> a]
    /\ UNCHANGED <<uq_pc, uq_existing, uq_result, uq_lost, UqRest>>

NextUpsert == UqSelect \/ UqUpsert \/ WriterStores

SpecUpsert == InitUpsert /\ [][NextUpsert]_vars

\* C27: over every interleaving with the other writer, the call never
\* replaces an answer whose source is not 'ai_extracted'.
C27_ManualNeverReplaced == ~uq_lost


-----------------------------------------------------------------------------
(* The merge of the TWO_PASS results on its own: the result of the metadata *)
(* call and the result of the controls call, each a JSON object that may    *)
(* have any of the five keys                                                *)

\* A key that the object does not have, and a key with its value.
Absent(default) == [has |-> FALSE, value |-> default]
Key(value) == [has |-> TRUE, value |-> value]

\* The values tried for each key of a result.
MetadataValues ==
    {Absent([reportType |-> Missing]), Key([reportType |-> "Type 1"]),
     Key([reportType |-> "SOC 2 Type II"])}
ControlsValues ==
    {Absent(<<>>),
     Key(<<[controlId |-> "CC1.1", tscCategory |-> "CC1",
            testResult |-> "No exceptions noted"]>>),
     Key(<<[controlId |-> "CC6.1", tscCategory |-> "CC6", testResult |-> "Not Tested"],
           [controlId |-> Missing, tscCategory |-> Missing, testResult |-> Missing]>>),
     Key(<<[controlId |-> "CC7.2", tscCategory |-> "CC7", testResult |-> None]>>)}
ExceptionsValues == {Absent(<<>>), Key(<<[controlId |-> "CC6.1"]>>)}
SubserviceOrgsValues == {Absent(<<>>), Key(<<[name |-> "AWS"]>>)}
CuecsValues == {Absent(<<>>), Key(<<[id |-> "CUEC-1"]>>)}

\* The JSON objects a call may return.
CallResults ==
    [metadata : MetadataValues, controls : ControlsValues,
     exceptions : ExceptionsValues, subserviceOrgs : SubserviceOrgsValues,
     cuecs : CuecsValues]

\* data.get(key, []) of a list-valued key
GetList(key) == IF key.has THEN key.value ELSE <<>>

\* _parse_metadata of data.get("metadata", {}): TYPE1 if "1" is in the
\* lower-cased reportType, whose default is "type2"
parse_metadata(key) ==
    [report_type |->
        IF ~key.has \/ key.value.reportType = Missing THEN "type2"
        ELSE IF key.value.reportType = "Type 1" THEN "type1"
        ELSE "type2"]

\* _parse_exceptions: one ExceptionExtraction per object
parse_exceptions(exceptions) ==
    [i \in 1..Len(exceptions) |-> [control_id |-> exceptions[i].controlId]]

\* _parse_subservice_orgs: one SubserviceOrg per object
parse_subservice_orgs(orgs) ==
    [i \in 1..Len(orgs) |-> [name |-> orgs[i].name]]

\* _parse_cuecs: one CUEC per object
parse_cuecs(cuecs) == [i \in 1..Len(cuecs) |-> [id |-> cuecs[i].id]]

\* A merge that takes the controls of the metadata result when it has some.
MergePrefersFirstControls(metadata_result, controls_result) ==
    [metadata |-> parse_metadata(metadata_result.metadata),
     controls |-> IF metadata_result.controls.has
                    THEN parse_controls(GetList(metadata_result.controls))
                    ELSE parse_controls(GetList(controls_result.controls)),
     exceptions |-> parse_exceptions(GetList(controls_result.exceptions)),
     subservice_orgs |-> parse_subservice_orgs(GetList(metadata_result.subserviceOrgs)),
     cuecs |-> parse_cuecs(GetList(metadata_result.cuecs))]

\* _merge_two_pass_results: the FullExtractionResult it returns
merge_two_pass_results(metadata_result, controls_result) ==
    [metadata |-> parse_metadata(metadata_result.metadata),
     controls |-> parse_controls(GetList(controls_result.controls)),
     exceptions |-> parse_exceptions(GetList(controls_result.exceptions)),
     subservice_orgs |-> parse_subservice_orgs(GetList(metadata_result.subserviceOrgs)),
     cuecs |-> parse_cuecs(GetList(metadata_result.cuecs))]

\* _merge_two_pass_results raises: _parse_controls does, on a null testResult
MergeTwoPassRaises(metadata_result, controls_result) ==
    ParseControlsRaises(GetList(controls_result.controls))

InitTwoPass ==
    /\ tp_metadata_result \in CallResults
    /\ tp_controls_result \in CallResults
    /\ tp_merged = None
    /\ tp_pc = "input"
    /\ CoreIdle
    /\ PgIdle
    /\ FjIdle
    /\ UqIdle
    /\ MoreIdle

\* extraction_result = self._merge_two_pass_results(results[0], results[1])
MergeTwoPass ==
    /\ tp_pc = "input"
    /\ IF MergeTwoPassRaises(tp_metadata_result, tp_controls_result)
         THEN /\ tp_pc' = "raised"
              /\ UNCHANGED tp_merged
         ELSE /\ tp_merged' = merge_two_pass_results(tp_metadata_result,
                                                     tp_controls_result)
              /\ tp_pc' = "merged"
    /\ UNCHANGED <<tp_metadata_result, tp_controls_result, coreVars, pgVars,
                   fjVars, uqVars, moreVars>>

NextTwoPass == MergeTwoPass

SpecTwoPass == InitTwoPass /\ [][NextTwoPass]_vars

\* C29: the merged record does not change when the controls or exceptions of
\* result 1, or the metadata, subserviceOrgs or cuecs of result 2, are
\* changed: the merge of the changed results returns the same record.
C29_MergeReadsItsOwnKeys ==
    tp_pc = "merged"
        => \A c \in ControlsValues, x \in ExceptionsValues :
           \A m \in MetadataValues, s \in SubserviceOrgsValues, u \in CuecsValues :
              LET r1 == [tp_metadata_result EXCEPT !.controls = c, !.exceptions = x]
                  r2 == [tp_controls_result EXCEPT !.metadata = m,
                                                   !.subserviceOrgs = s, !.cuecs = u]
              IN  /\ ~MergeTwoPassRaises(r1, r2)
                  /\ merge_two_pass_results(r1, r2) = tp_merged

\* A merge of two results that both have all five keys, with different
\* metadata and different controls.
C29_Witness ==
    /\ tp_pc = "merged"
    /\ \A r \in {tp_metadata_result, tp_controls_result} :
          /\ r.metadata.has
          /\ r.controls.has
          /\ r.exceptions.has
          /\ r.subserviceOrgs.has
          /\ r.cuecs.has
    /\ tp_metadata_result.metadata.value.reportType = "Type 1"
    /\ tp_controls_result.metadata.value.reportType = "SOC 2 Type II"
    /\ Len(tp_metadata_result.controls.value) # Len(tp_controls_result.controls.value)
    /\ tp_merged.metadata.report_type = "type1"
    /\ Len(tp_merged.controls) = Len(tp_controls_result.controls.value)


-----------------------------------------------------------------------------
(* Claims about the overall score                                           *)

\* The score of a level in halves, as the formula of the overall score has it.
Halves(level) == IF level = "full" THEN 2 ELSE IF level = "partial" THEN 1 ELSE 0

RECURSIVE SumScores(_, _)
\* The sum over the first n mappings of score * weight * confidence, in
\* units of 1 / (2 * 10 * ConfUnit).
SumScores(mappings, n) ==
    IF n = 0 THEN 0
    ELSE SumScores(mappings, n - 1)
         + Halves(mappings[n].coverage_level)
           * DORA_TO_TSC_MAPPING[mappings[n].dora_article].weight
           * mappings[n].confidence

RECURSIVE SumWeights(_, _)
\* The sum over the first n mappings of the article weights, in tenths.
SumWeights(mappings, n) ==
    IF n = 0 THEN 0
    ELSE SumWeights(mappings, n - 1)
         + DORA_TO_TSC_MAPPING[mappings[n].dora_article].weight

\* The overall score in thousandths times the weight sum, and 1000 times
\* the score sum, in the same unit: equal when the overall score is the
\* quotient exactly.
ScaledScore == sc_coverage.overall_score * 2 * ConfUnit
                  * SumWeights(sc_mappings, Len(sc_mappings))
ScaledSum == 1000 * SumScores(sc_mappings, Len(sc_mappings))

\* C30 as stated: the overall score is exactly the sum of
\* coverage_score * weight * confidence divided by the sum of the weights.
C30_ScoreIsExactQuotient ==
    sc_pc = "covered" => ScaledScore = ScaledSum

\* C30, amended: the overall score is that quotient rounded to three
\* decimals (it differs from it by at most 0.0005) and lies in [0, 1].
C30_ScoreIsRoundedQuotient ==
    sc_pc = "covered"
        => /\ 2 * (ScaledScore - ScaledSum)
                 <= 2 * ConfUnit * SumWeights(sc_mappings, Len(sc_mappings))
           /\ 2 * (ScaledSum - ScaledScore)
                 <= 2 * ConfUnit * SumWeights(sc_mappings, Len(sc_mappings))
           /\ sc_coverage.overall_score >= 0
           /\ sc_coverage.overall_score <= 1000

\* A coverage with a full and a partial article, whose quotient is not a
\* multiple of 0.001.
C30_Witness ==
    /\ sc_pc = "covered"
    /\ \E i \in DOMAIN sc_mappings : sc_mappings[i].coverage_level = "full"
    /\ \E i \in DOMAIN sc_mappings : sc_mappings[i].coverage_level = "partial"
    /\ sc_coverage.overall_score > 0
    /\ ScaledScore # ScaledSum


(***************************************************************************)
(* C31: the count of covered articles                                      *)
(***************************************************************************)

\* The articles of a per-article mapping whose level is full or partial.
CoveredArticles(by_article) ==
    {a \in DOMAIN by_article : by_article[a].coverage_level \in {"full", "partial"}}

\* C31: once the coverage is calculated, articles_covered is the number of
\* articles of coverage_by_article whose level is full or partial, and it is
\* at most articles_total.
C31_ArticlesCoveredIsCount ==
    sc_pc = "covered" =>
       /\ sc_coverage.articles_covered
            = Cardinality(CoveredArticles(sc_coverage.coverage_by_article))
       /\ sc_coverage.articles_covered <= sc_coverage.articles_total

\* Some articles are covered and some are not.
C31_Witness ==
    /\ sc_pc = "covered"
    /\ sc_coverage.articles_covered > 0
    /\ sc_coverage.articles_covered < sc_coverage.articles_total
    /\ \E a \in DOMAIN sc_coverage.coverage_by_article :
          sc_coverage.coverage_by_article[a].coverage_level = "partial"


(***************************************************************************)
(* C32: the coverage of an extraction without controls.  parse() maps and  *)
(* scores the controls only under "if result.data and result.data.controls" *)
(***************************************************************************)

\* parse(), the statistics block after the extraction returned: the control
\* list is mapped and scored if it is not empty; otherwise dora_mappings and
\* dora_coverage keep the defaults of ParseResult (the empty list and None)
ParseScores ==
    /\ sc_pc = "input"
    /\ IF Len(sc_controls) > 0
         THEN /\ sc_mappings' = map_controls_to_dora(sc_controls)
              /\ sc_coverage' = calculate_dora_coverage(sc_mappings')
              /\ sc_pc' = "scored"
         ELSE /\ sc_pc' = "unscored"
              /\ UNCHANGED <<sc_mappings, sc_coverage>>
    /\ UNCHANGED <<sc_controls, jobVars, selVars, adVars, mgVars, unitVars>>

NextParseScore == AddControl \/ ParseScores

SpecParseScore == InitScorer /\ [][NextParseScore]_vars

\* C32: a parse whose extraction has an empty control list returns a coverage
\* result with overall_score 0, articles_covered 0 and an empty per-article
\* mapping.
C32_EmptyControlsGiveEmptyCoverage ==
    (sc_pc \in {"scored", "unscored"} /\ Len(sc_controls) = 0) =>
       /\ sc_pc = "scored"
       /\ sc_coverage.overall_score = 0
       /\ sc_coverage.articles_covered = 0
       /\ DOMAIN sc_coverage.coverage_by_article = {}


(***************************************************************************)
(* C33: field normalization on unexpected input                            *)
(***************************************************************************)

\* C33: whatever the enum-like fields of the control objects are (missing,
\* null or an unrecognized string), the merge step returns the merged list of
\* controls and never raises.
C33_NormalizationNeverRaises ==
    mg_pc \in {"input", "merged"}


(***************************************************************************)
(* C34: the token usage of a batch.  extract_with_caching adds the counts  *)
(* of a call to total_usage as soon as the call returned;                  *)
(* run_parallel_extraction adds them after asyncio.gather returned         *)
(***************************************************************************)

\* The largest token count a call reports.
MaxTokens == 2

\* The operations that run a batch of calls.
BatchOperations == {"extract_with_caching", "run_parallel_extraction"}

\* response.usage_metadata of one call: prompt_token_count is at least 1,
\* candidates_token_count and cached_content_token_count may be missing.
UsageMetadata ==
    [prompt_token_count         : {Key(n) : n \in 1..MaxTokens},
     candidates_token_count     : {Absent(0)} \cup {Key(n) : n \in 0..MaxTokens},
     cached_content_token_count : {Absent(0), Key(MaxTokens)}]

\* getattr(response.usage_metadata, name, 0)
getattr(attribute) == IF attribute.has THEN attribute.value ELSE 0

\* The usage dict of one call.
UsageOf(usage_metadata) ==
    [input  |-> getattr(usage_metadata.prompt_token_count),
     output |-> getattr(usage_metadata.candidates_token_count),
     cached |-> getattr(usage_metadata.cached_content_token_count)]

\* An accumulation that keeps the counts of the last call only.
AccumulateLast(total_usage, usage) == usage

\* total_usage["input"] += ...; total_usage["output"] += ...;
\* total_usage["cached"] += ...
Accumulate(total_usage, usage) ==
    [input  |-> total_usage.input + usage.input,
     output |-> total_usage.output + usage.output,
     cached |-> total_usage.cached + usage.cached]

RECURSIVE AccumulateAll(_, _)
\* The loop over the results of asyncio.gather, from the n-th usage down.
AccumulateAll(usages, n) ==
    IF n = 0 THEN NoUsage
    ELSE Accumulate(AccumulateAll(usages, n - 1), UsageOf(usages[n]))

InitUsage ==
    /\ us_op \in BatchOperations
    /\ us_usages = <<>>
    /\ us_total = NoUsage
    /\ us_pc = "calls"
    /\ CoreIdle
    /\ PgIdle
    /\ FjIdle
    /\ UqIdle
    /\ TpIdle
    /\ QpIdle
    /\ RtIdle

UsRest == <<us_op, coreVars, pgVars, fjVars, uqVars, tpVars, qpVars, rtVars>>

\* One more call of the batch returns its response
UsCallReturns ==
    /\ us_pc = "calls"
    /\ Len(us_usages) < Len(Prompts(us_op))
    /\ \E m \in UsageMetadata :
         /\ us_usages' = Append(us_usages, m)
         /\ us_total' = IF us_op = "extract_with_caching"
                          THEN Accumulate(us_total, UsageOf(m))
                          ELSE us_total
    /\ UNCHANGED <<us_pc, UsRest>>

\* A call of the batch raises: the exception leaves the operation, which
\* returns no usage
UsCallRaises ==
    /\ us_pc = "calls"
    /\ Len(us_usages) < Len(Prompts(us_op))
    /\ us_pc' = "raised"
    /\ UNCHANGED <<us_usages, us_total, UsRest>>

\* return results, total_usage / return extracted_data, total_usage
UsReturns ==
    /\ us_pc = "calls"
    /\ Len(us_usages) = Len(Prompts(us_op))
    /\ us_total' = IF us_op = "run_parallel_extraction"
                     THEN AccumulateAll(us_usages, Len(us_usages))
                     ELSE us_total
    /\ us_pc' = "returned"
    /\ UNCHANGED <<us_usages, UsRest>>

NextUsage == UsCallReturns \/ UsCallRaises \/ UsReturns

SpecUsage == InitUsage /\ [][NextUsage]_vars

RECURSIVE SumOfCounts(_, _, _)
\* The sum of one count over the first n calls of a batch.
SumOfCounts(usages, name, n) ==
    IF n = 0 THEN 0
    ELSE SumOfCounts(usages, name, n - 1)
         + (IF usages[n][name].has THEN usages[n][name].value ELSE 0)

\* C34: the usage a batch returns holds, for input, output and cached tokens,
\* the sum of that count over all calls of the batch, and each is a
\* non-negative integer.
C34_UsageIsSumOverCalls ==
    us_pc = "returned" =>
       /\ us_total.input
            = SumOfCounts(us_usages, "prompt_token_count", Len(us_usages))
       /\ us_total.output
            = SumOfCounts(us_usages, "candidates_token_count", Len(us_usages))
       /\ us_total.cached
            = SumOfCounts(us_usages, "cached_content_token_count", Len(us_usages))
       /\ us_total.input \in Nat /\ us_total.output \in Nat
       /\ us_total.cached \in Nat

\* A parallel batch of three calls with different counts returned its usage.
C34_Witness ==
    /\ us_pc = "returned"
    /\ us_op = "run_parallel_extraction"
    /\ Len(us_usages) = 3
    /\ us_usages[1] # us_usages[2]
    /\ ~us_usages[3].candidates_token_count.has
    /\ us_total.output > 0
    /\ us_total.cached > 0


(***************************************************************************)
(* C36: the error message after the retries of a model call are exhausted. *)
(* A message is the sequence of its pieces; the substring tests of the     *)
(* except clause are decided piece by piece                                *)
(***************************************************************************)

\* @retry(stop=stop_after_attempt(5), ...) of QuestionnaireParser._call_gemini
QP_MAX_ATTEMPTS == 5

\* The exceptions an attempt raises: the rate limit (str() gives "429
\* Resource has been exhausted ...") and another transient failure.
AttemptExceptions == {"ResourceExhausted", "ServiceUnavailable"}

\* The addresses repr() prints for a Future object.
FutureAddresses == {"7f3a5c0e1d90", "7f3a5c429d90"}

\* sub in piece, for the pieces of the messages below
PieceHas(piece, sub) ==
    CASE piece = "7f3a5c429d90" -> sub = "429"
      [] piece = "Rate limit exceeded after retries. Please try again in a few minutes. Original: "
           -> sub = "Rate limit exceeded after retries"
      [] OTHER -> FALSE

\* sub in error_msg
MsgHas(error_msg, sub) == \E i \in 1..Len(error_msg) : PieceHas(error_msg[i], sub)

\* str(e) of the RetryError the retry wrapper raises after the last attempt:
\* "RetryError[<Future at 0x... state=finished raised ...>]"
RetryErrorStr(address, exception) ==
    <<"RetryError[<Future at 0x", address, " state=finished raised ", exception, ">]">>

\* str(e) of the KeyError a result without a citation raises while the
\* extractions are processed
KeyErrorStr == <<"'citation'">>

\* parse(), the except clause: the message of the failed result
ErrorMessage(error_msg) ==
    IF MsgHas(error_msg, "Resource exhausted") \/ MsgHas(error_msg, "429")
      THEN <<"Rate limit exceeded after retries. Please try again in a few minutes. Original: ">>
           \o error_msg
      ELSE error_msg

InitQuestionnaire ==
    /\ qp_attempts = <<>>
    /\ qp_address \in FutureAddresses
    /\ qp_error = <<>>
    /\ qp_pc = "call_gemini"
    /\ CoreIdle
    /\ PgIdle
    /\ FjIdle
    /\ UqIdle
    /\ TpIdle
    /\ UsIdle
    /\ RtIdle

QpRest == <<qp_address, coreVars, pgVars, fjVars, uqVars, tpVars, usVars, rtVars>>

\* An attempt of _call_gemini raises and the wrapper waits for the next one
QpAttemptFails ==
    /\ qp_pc = "call_gemini"
    /\ Len(qp_attempts) < QP_MAX_ATTEMPTS
    /\ \E x \in AttemptExceptions : qp_attempts' = Append(qp_attempts, x)
    /\ UNCHANGED <<qp_error, qp_pc, QpRest>>

\* The last attempt failed: the wrapper raises RetryError and the except
\* clause of parse returns the failed result
QpRetriesExhausted ==
    /\ qp_pc = "call_gemini"
    /\ Len(qp_attempts) = QP_MAX_ATTEMPTS
    /\ qp_error' = ErrorMessage(RetryErrorStr(qp_address,
                                              qp_attempts[Len(qp_attempts)]))
    /\ qp_pc' = "failed"
    /\ UNCHANGED <<qp_attempts, QpRest>>

\* An attempt returns the model's answer
QpAttemptReturns ==
    /\ qp_pc = "call_gemini"
    /\ Len(qp_attempts) < QP_MAX_ATTEMPTS
    /\ qp_pc' = "processing"
    /\ UNCHANGED <<qp_attempts, qp_error, QpRest>>

\* The extractions are processed: the successful result is returned, or an
\* extraction lacks a key and the except clause returns the failed result
QpProcess ==
    /\ qp_pc = "processing"
    /\ \/ /\ qp_pc' = "succeeded"
          /\ UNCHANGED qp_error
       \/ /\ qp_error' = ErrorMessage(KeyErrorStr)
          /\ qp_pc' = "failed"
    /\ UNCHANGED <<qp_attempts, QpRest>>

NextQuestionnaire ==
    QpAttemptFails \/ QpRetriesExhausted \/ QpAttemptReturns \/ QpProcess

SpecQuestionnaire == InitQuestionnaire /\ [][NextQuestionnaire]_vars

\* Every attempt of the retried call failed with the rate-limit error.
RateLimitExhausted ==
    /\ Len(qp_attempts) = QP_MAX_ATTEMPTS
    /\ \A i \in 1..Len(qp_attempts) : qp_attempts[i] = "ResourceExhausted"

\* C36: the error of a failed result says that the rate limit was exceeded
\* after retries exactly when every attempt of the retried model call failed
\* with a rate-limit error.
C36_MessageNamesRateLimit ==
    qp_pc = "failed" =>
       (MsgHas(qp_error, "Rate limit exceeded after retries") <=> RateLimitExhausted)


(***************************************************************************)
(* C37: an extraction record, the database record to_database_record       *)
(* builds from it, and the record the field parsers read back from that    *)
(***************************************************************************)

\* The most controls of an extraction record.
MaxRtControls == 2

\* data.metadata of the extraction records.
RtMetadata ==
    [report_type      : {"type1", "type2"},
     audit_firm       : {"Unknown", "Deloitte"},
     opinion          : {"unqualified", "qualified", "adverse"},
     period_start     : {"2024-01-01"},
     period_end       : {"today", "2024-12-31"},
     service_org_name : {"Unknown", "Acme"}]

\* data.controls with n controls: the i-th has the i-th test result
RtControls(n) ==
    [i \in 1..n |->
       [control_id |-> IF i = 1 THEN "CC1.1" ELSE "CC6.1",
        tsc_category |-> IF i = 1 THEN "CC1" ELSE "CC6",
        test_result |-> IF i = 1 THEN "exception" ELSE "not_tested"]]

\* data.exceptions with n exceptions
RtExceptions(n) ==
    [i \in 1..n |-> [control_id |-> "CC1.1", description |-> "late review"]]

\* dict.get(key, default)
Get(dict, key, default) == IF key \in DOMAIN dict THEN dict[key] ELSE default

\* sub in s.lower(), for the values of the metadata fields
StrHas(s, sub) ==
    CASE s = "type1" -> sub = "1"
      [] s = "unqualified" -> sub \in {"qualified", "un"}
      [] s = "qualified" -> sub = "qualified"
      [] s = "adverse" -> sub = "adverse"
      [] OTHER -> FALSE

\* _parse_date: the empty string gives date.today()
parse_date(date_str) == IF date_str = "" THEN "today" ELSE date_str

\* ParseResult.to_database_record, the keys the re-parse is about
to_database_record(data) ==
    [report_type  |-> data.metadata.report_type,
     audit_firm   |-> data.metadata.audit_firm,
     opinion      |-> data.metadata.opinion,
     period_start |-> data.metadata.period_start,
     period_end   |-> data.metadata.period_end,
     controls     |-> [i \in 1..Len(data.controls) |->
                         [controlId   |-> data.controls[i].control_id,
                          tscCategory |-> data.controls[i].tsc_category,
                          testResult  |-> data.controls[i].test_result]],
     exceptions   |-> [i \in 1..Len(data.exceptions) |->
                         [controlId |-> data.exceptions[i].control_id,
                          exceptionDescription |-> data.exceptions[i].description]]]

\* _parse_metadata of a dict
RtParseMetadata(data) ==
    LET report_type_str == Get(data, "reportType", "type2")
        opinion_str     == Get(data, "opinion", "unqualified")
    IN  [report_type |-> IF StrHas(report_type_str, "1") THEN "type1" ELSE "type2",
         audit_firm  |-> Get(data, "auditFirm", "Unknown"),
         opinion     |-> IF StrHas(opinion_str, "qualified") /\ ~StrHas(opinion_str, "un")
                           THEN "qualified"
                         ELSE IF StrHas(opinion_str, "adverse") THEN "adverse"
                         ELSE "unqualified",
         period_start |-> parse_date(Get(data, "periodStart", "")),
         period_end   |-> parse_date(Get(data, "periodEnd", "")),
         service_org_name |-> Get(data, "serviceOrgName", "Unknown")]

\* _parse_exceptions of a list
RtParseExceptions(exceptions) ==
    [i \in 1..Len(exceptions) |->
       [control_id  |-> Get(exceptions[i], "controlId", "UNKNOWN"),
        description |-> Get(exceptions[i], "description", "")]]

\* _parse_full_extraction of a dict
parse_full_extraction(data) ==
    [metadata   |-> RtParseMetadata(Get(data, "metadata", <<>>)),
     controls   |-> parse_controls(Get(data, "controls", <<>>)),
     exceptions |-> RtParseExceptions(Get(data, "exceptions", <<>>))]

InitRoundTrip ==
    /\ rt_data \in {[metadata |-> m, controls |-> RtControls(n),
                     exceptions |-> RtExceptions(k)] :
                      m \in RtMetadata, n \in 0..MaxRtControls, k \in 0..1}
    /\ rt_record = None
    /\ rt_reparsed = None
    /\ rt_pc = "extracted"
    /\ CoreIdle
    /\ PgIdle
    /\ FjIdle
    /\ UqIdle
    /\ TpIdle
    /\ UsIdle
    /\ QpIdle

RtRest == <<rt_data, coreVars, pgVars, fjVars, uqVars, tpVars, usVars, qpVars>>

\* db_record = result.to_database_record()
Serialize ==
    /\ rt_pc = "extracted"
    /\ rt_record' = to_database_record(rt_data)
    /\ rt_pc' = "serialized"
    /\ UNCHANGED <<rt_reparsed, RtRest>>

\* The record is read back with the parser's field parsers
Reparse ==
    /\ rt_pc = "serialized"
    /\ rt_reparsed' = parse_full_extraction(rt_record)
    /\ rt_pc' = "reparsed"
    /\ UNCHANGED <<rt_record, RtRest>>

NextRoundTrip == Serialize \/ Reparse

SpecRoundTrip == InitRoundTrip /\ [][NextRoundTrip]_vars

\* C37: the record read back from the database record of an extraction
\* record has as many controls and as many exceptions as the extraction
\* record and the same report type, audit firm, opinion, period and service
\* organization.
C37_RoundTripReproducesRecord ==
    rt_pc = "reparsed" =>
       /\ Len(rt_reparsed.controls) = Len(rt_data.controls)
       /\ Len(rt_reparsed.exceptions) = Len(rt_data.exceptions)
       /\ rt_reparsed.metadata = rt_data.metadata


(***************************************************************************)
(* C35, C38, C39, C40: the job runs again                                  *)
(***************************************************************************)

\* C35: a run that is creating the vendor assessments goes on to
\* complete_job, whether the lookups of the framework id, of the framework's
\* controls and of an article's control find something, find nothing or fail.
C35_LookupFailureNeverFailsJob ==
    [][\A r \in Runs :
         frame[r].pc = "vendor_assessments" =>
            frame'[r].pc \in {"vendor_assessments", "complete_job"}]_vars

\* C38: every ParseResult parse returns, successful or failed, names the
\* strategy selected from the estimated page count, and its api_calls_count
\* is 0 when the parse issued no model call.
C38_StatisticsDescribeTheParse ==
    \A r \in Runs :
      frame[r].parseOutcome = "returned" =>
        /\ frame[r].parseResult.extraction_strategy
             = SelectStrategy(estimate_pages(pdfLen))
        /\ modelCalls[r] = 0 => frame[r].parseResult.api_calls_count = 0

\* C39: a run whose job is failed has inserted no parsed_soc2 row.
C39_FailedJobLeavesNoParsedRow ==
    \A r \in Runs : job[r].status = "failed" => RowId(r) \notin parsed

\* C40: no write to the job row of a run lowers its progress_percentage.
C40_JobProgressNeverDecreases ==
    [][\A r \in Runs :
         job'[r].progress_percentage >= job[r].progress_percentage]_vars

=============================================================================
